---- MODULE Spec2Model ----
(***************************************************************************)
(* PseudoBBL: a two-stage "analysis then generation" pipeline extension.   *)
(* The module models                                                       *)
(*   - parseUIDs (src/index.js, src/pipeline.js, src/unnamed/part_000),    *)
(*     with texts as sequences of one-character strings and JavaScript     *)
(*     numbers as sign + decimal magnitude, rounded as an IEEE double;     *)
(*   - handlePipelineTrigger and the host-event handlers around it, in the *)
(*     index.js variant ("index") and in the variant of part_000           *)
(*     lines 339-1055 ("part"), as processes that are suspended at every   *)
(*     await;                                                              *)
(*   - the settings record: the merge with the defaults, the               *)
(*     initialization and the UI callbacks that save it;                   *)
(*   - the housekeeping pass, the debug log and, for part_000 lines 1-337  *)
(*     ("first"), the deferred-task queue;                                 *)
(*   - the analysis dry run, alone and side by side with a pipeline run.   *)
(***************************************************************************)
EXTENDS Integers, Sequences, FiniteSets, TLC

\* ------------------------------------------------------------------------
\*  Texts
\* ------------------------------------------------------------------------
\* the literal opening tag of the regular expression /<UIDs>(.*?)<\/UIDs>/
OPEN == <<"<", "U", "I", "D", "s", ">">>

\* the literal closing tag of the regular expression
CLOSE == <<"<", "/", "U", "I", "D", "s", ">">>

\* an optional list: JavaScript null, or the list v
NoList == [some |-> FALSE, v |-> <<>>]

Some(l) == [some |-> TRUE, v |-> l]

\* characters String.prototype.trim and parseInt strip (the ones the inputs use)
WhiteSpace == {" ", "\n", "\t"}

\* characters the regular expression's dot does not match without the s flag
LineTerminators == {"\n"}

\* value of a character as a digit
DigitVal == [c \in {"0","1","2","3","4","5","6","7","8","9",
                    "a","b","c","d","e","f","A","B","C","D","E","F"} |->
    CASE c = "0" -> 0 [] c = "1" -> 1 [] c = "2" -> 2 [] c = "3" -> 3
      [] c = "4" -> 4 [] c = "5" -> 5 [] c = "6" -> 6 [] c = "7" -> 7
      [] c = "8" -> 8 [] c = "9" -> 9
      [] c \in {"a","A"} -> 10 [] c \in {"b","B"} -> 11
      [] c \in {"c","C"} -> 12 [] c \in {"d","D"} -> 13
      [] c \in {"e","E"} -> 14 [] c \in {"f","F"} -> 15]

\* is c a digit of radix r
IsDigit(c, r) == c \in DOMAIN DigitVal /\ DigitVal[c] < r

\* ------------------------------------------------------------------------
\*  Natural numbers as decimal digit sequences (most significant first),
\*  without leading zeros; zero is <<0>>.
\* ------------------------------------------------------------------------
RECURSIVE StripZeros(_)
StripZeros(d) ==
    IF Len(d) > 1 /\ d[1] = 0 THEN StripZeros(Tail(d)) ELSE d

RECURSIVE MulAddRev(_, _, _)
\* digits least significant first: d * m + carry
MulAddRev(d, m, carry) ==
    IF d = <<>>
    THEN IF carry = 0 THEN <<>>
         ELSE <<carry % 10>> \o MulAddRev(<<>>, m, carry \div 10)
    ELSE LET v == d[1] * m + carry
         IN  <<v % 10>> \o MulAddRev(Tail(d), m, v \div 10)

RECURSIVE Reverse(_)
Reverse(s) == IF s = <<>> THEN <<>> ELSE Reverse(Tail(s)) \o <<s[1]>>

\* a * m + c
MulAdd(a, m, c) == StripZeros(Reverse(MulAddRev(Reverse(a), m, c)))

RECURSIVE HalfFrom(_, _)
\* long division by two, rem is the remainder carried into the next digit
HalfFrom(d, rem) ==
    IF d = <<>> THEN <<>>
    ELSE LET v == rem * 10 + d[1]
         IN  <<v \div 2>> \o HalfFrom(Tail(d), v % 2)

\* floor(a / 2)
Half(a) == StripZeros(HalfFrom(a, 0))

\* a mod 2
IsOdd(a) == a[Len(a)] % 2 = 1

RECURSIVE LexLess(_, _)
LexLess(a, b) ==
    IF a = <<>> THEN FALSE
    ELSE IF a[1] # b[1] THEN a[1] < b[1]
    ELSE LexLess(Tail(a), Tail(b))

\* a < b
MagLess(a, b) ==
    IF Len(a) # Len(b) THEN Len(a) < Len(b) ELSE LexLess(a, b)

\* 2^53: every integer of magnitude up to this is an IEEE double
TwoPow53 == <<9,0,0,7,1,9,9,2,5,4,7,4,0,9,9,2>>

RECURSIVE Doubled(_, _)
\* a * 2^e
Doubled(a, e) == IF e = 0 THEN a ELSE Doubled(MulAdd(a, 2, 0), e - 1)

RECURSIVE RoundShift(_, _, _, _)
\* drop low bits of a until it fits 53 bits, round to nearest, ties to even
RoundShift(a, e, guard, sticky) ==
    IF MagLess(a, TwoPow53)
    THEN LET up == guard /\ (sticky \/ IsOdd(a))
         IN  Doubled(IF up THEN MulAdd(a, 1, 1) ELSE a, e)
    ELSE RoundShift(Half(a), e + 1, IsOdd(a), sticky \/ guard)

\* the Number value of the mathematical integer a
ToDouble(a) == RoundShift(a, 0, FALSE, FALSE)

\* ------------------------------------------------------------------------
\*  JavaScript numbers: sign and magnitude; NaN has no magnitude.
\*  -0 and 0 are one value (they are === in JavaScript).
\* ------------------------------------------------------------------------
NaN == [neg |-> FALSE, mag |-> <<>>]

isNaN(n) == n.mag = <<>>

\* the number with sign neg and magnitude m
MkNum(neg, m) == [neg |-> neg /\ m # <<0>>, mag |-> m]

\* a small natural number as a JavaScript number
Num(n) == MkNum(FALSE, IF n < 10 THEN <<n>> ELSE <<n \div 10, n % 10>>)

\* ------------------------------------------------------------------------
\*  String operations used by parseUIDs
\* ------------------------------------------------------------------------
RECURSIVE TrimStart(_)
TrimStart(s) ==
    IF s # <<>> /\ s[1] \in WhiteSpace THEN TrimStart(Tail(s)) ELSE s

RECURSIVE TrimEnd(_)
TrimEnd(s) ==
    IF s # <<>> /\ s[Len(s)] \in WhiteSpace
    THEN TrimEnd(SubSeq(s, 1, Len(s) - 1)) ELSE s

\* String.prototype.trim
trim(s) == TrimEnd(TrimStart(s))

RECURSIVE split(_, _)
\* String.prototype.split on a one-character separator
split(s, sep) ==
    IF \E k \in 1..Len(s) : s[k] = sep
    THEN LET k == CHOOSE j \in 1..Len(s) :
                      s[j] = sep /\ \A h \in 1..(j - 1) : s[h] # sep
         IN  <<SubSeq(s, 1, k - 1)>> \o split(SubSeq(s, k + 1, Len(s)), sep)
    ELSE <<s>>

\* fault injection for TokensWithoutLeadingIntegerDropped: a strict scan that
\* takes the digits only when the whole string is digits
DigitPrefixStrict(s, r) ==
    IF \A k \in 1..Len(s) : IsDigit(s[k], r) THEN s ELSE <<>>

RECURSIVE DigitPrefix(_, _)
\* the longest prefix of s made of digits of radix r
DigitPrefix(s, r) ==
    IF s # <<>> /\ IsDigit(s[1], r)
    THEN <<s[1]>> \o DigitPrefix(Tail(s), r) ELSE <<>>

RECURSIVE MathIntFrom(_, _, _)
MathIntFrom(z, r, acc) ==
    IF z = <<>> THEN acc
    ELSE MathIntFrom(Tail(z), r, MulAdd(acc, r, DigitVal[z[1]]))

\* the mathematical integer denoted by the digits z in radix r (in radix 10
\* the digits are the magnitude)
MathInt(z, r) ==
    IF r = 10 THEN StripZeros([k \in 1..Len(z) |-> DigitVal[z[k]]])
    ELSE MathIntFrom(z, r, <<0>>)

\* fault injection for IntegerListExactWhenClean: a conversion that reads the
\* digits and loses the sign
parseIntUnsigned(s) ==
    LET s1  == TrimStart(s)
        s2  == IF s1 # <<>> /\ s1[1] \in {"+", "-"} THEN Tail(s1) ELSE s1
        z   == DigitPrefix(s2, 10)
    IN  IF z = <<>> THEN NaN ELSE MkNum(FALSE, ToDouble(MathInt(z, 10)))

\* fault injection for BlankContentEmpty: a conversion that, like Number(),
\* reads the empty string as 0
parseIntEmptyZero(s) ==
    LET s1  == TrimStart(s)
        neg == s1 # <<>> /\ s1[1] = "-"
        s2  == IF s1 # <<>> /\ s1[1] \in {"+", "-"} THEN Tail(s1) ELSE s1
        z   == DigitPrefix(s2, 10)
    IN  IF s1 = <<>> THEN MkNum(FALSE, <<0>>)
        ELSE IF z = <<>> THEN NaN ELSE MkNum(neg, ToDouble(MathInt(z, 10)))

\* the global parseInt(string) with no radix argument
parseInt(s) ==
    LET s1  == TrimStart(s)
        neg == s1 # <<>> /\ s1[1] = "-"
        s2  == IF s1 # <<>> /\ s1[1] \in {"+", "-"} THEN Tail(s1) ELSE s1
        hex == Len(s2) >= 2 /\ s2[1] = "0" /\ s2[2] \in {"x", "X"}
        s3  == IF hex THEN SubSeq(s2, 3, Len(s2)) ELSE s2
        r   == IF hex THEN 16 ELSE 10
        z   == DigitPrefix(s3, r)
    IN  IF z = <<>> THEN NaN ELSE MkNum(neg, ToDouble(MathInt(z, r)))

\* does the word w occur in t at position p
StartsAt(t, p, w) ==
    /\ p + Len(w) - 1 <= Len(t)
    /\ \A k \in 1..Len(w) : t[p + k - 1] = w[k]

\* the pairs (position of an opening tag, position of a closing tag) between
\* which every character is matched by the dot
MatchPairs(t, dotAll) ==
    LET opens  == {p \in 1..Len(t) : StartsAt(t, p, OPEN)}
        closes == {q \in 1..Len(t) : StartsAt(t, q, CLOSE)}
    IN  {pq \in opens \X closes :
            /\ pq[2] >= pq[1] + Len(OPEN)
            /\ \A k \in (pq[1] + Len(OPEN))..(pq[2] - 1) :
                  dotAll \/ t[k] \notin LineTerminators}

\* fault injection for NoTagNoEntries: a match whose closing tag is optional,
\* /<UIDs>(.*?)(<\/UIDs>|$)/
matchOpenEnded(t, dotAll) ==
    LET ps    == MatchPairs(t, dotAll)
        opens == {p \in 1..Len(t) : StartsAt(t, p, OPEN)}
    IN  IF opens = {} THEN NoList
        ELSE LET p  == CHOOSE x \in opens : \A y \in opens : x <= y
                 qs == {pq[2] : pq \in {r \in ps : r[1] = p}}
             IN  IF qs = {} THEN Some(SubSeq(t, p + Len(OPEN), Len(t)))
                 ELSE Some(SubSeq(t, p + Len(OPEN),
                                  (CHOOSE x \in qs : \A y \in qs : x <= y) - 1))

\* text.match(/<UIDs>(.*?)<\/UIDs>/): capture group 1 of the leftmost match,
\* the lazy quantifier taking the nearest closing tag; NoList when no match
match(t, dotAll) ==
    LET ps == MatchPairs(t, dotAll)
    IN  IF ps = {} THEN NoList
        ELSE LET p == CHOOSE x \in {pq[1] : pq \in ps} :
                          \A y \in {pq[1] : pq \in ps} : x <= y
                 q == CHOOSE x \in {pq[2] : pq \in {r \in ps : r[1] = p}} :
                          \A y \in {pq[2] : pq \in {r \in ps : r[1] = p}} : x <= y
             IN  Some(SubSeq(t, p + Len(OPEN), q - 1))

RECURSIVE MapParseInt(_)
\* .map(n => parseInt(n.trim()))
MapParseInt(toks) ==
    IF toks = <<>> THEN <<>>
    ELSE <<parseInt(trim(toks[1]))>> \o MapParseInt(Tail(toks))

RECURSIVE FilterPositive(_)
\* fault injection for NoDedupNoRangeExact: a filter that also validates the
\* range, .filter(n => n > 0)
FilterPositive(ns) ==
    IF ns = <<>> THEN <<>>
    ELSE (IF isNaN(ns[1]) \/ ns[1].neg \/ ns[1].mag = <<0>> THEN <<>> ELSE <<ns[1]>>)
         \o FilterPositive(Tail(ns))

RECURSIVE FilterNotNaN(_)
\* .filter(n => !isNaN(n))
FilterNotNaN(ns) ==
    IF ns = <<>> THEN <<>>
    ELSE (IF isNaN(ns[1]) THEN <<>> ELSE <<ns[1]>>) \o FilterNotNaN(Tail(ns))

\* parseUIDs of src/index.js (regular expression with the s flag)
parseUIDs_index(text) ==
    LET m == match(text, TRUE)
    IN  IF ~m.some \/ m.v = <<>> THEN <<>>
        ELSE FilterNotNaN(MapParseInt(split(m.v, ",")))

\* parseUIDs of src/pipeline.js
parseUIDs_pipeline(text) ==
    LET m == match(text, FALSE)
    IN  IF ~m.some \/ m.v = <<>> THEN <<>>
        ELSE IF trim(m.v) = <<>> THEN <<>>
        ELSE FilterNotNaN(MapParseInt(split(m.v, ",")))

\* parseUIDs of src/unnamed/part_000
parseUIDs_part(text) ==
    LET m == match(text, FALSE)
    IN  IF ~m.some \/ m.v = <<>> THEN <<>>
        ELSE IF trim(m.v) = <<>> THEN <<>>
        ELSE FilterNotNaN(MapParseInt(split(m.v, ",")))

\* ------------------------------------------------------------------------
\*  The pipeline: state
\* ------------------------------------------------------------------------
\* handler invocations of the generation trigger that can be pending at once
MaxInv == 2

\* longest time without pipeline activity that Tick tells apart
MaxIdle == 1

VARIABLES
    variant,                \* which file runs: "index", "part" or "first"
    settings,               \* extension_settings[EXTENSION_NAME]
    lalib,                  \* typeof window.LALib !== 'undefined'
    idleTime,               \* Date.now() - pipelineState.lastActivity
    pipelineState,          \* the module-level pipelineState record
    userOriginalSettings,   \* the module-level saved provider/model
    hostSel,                \* the host's active provider/model (context.api/.model)
    inv,                    \* the handler invocations: position, locals, history
    cacheStale,             \* history: the cached list comes from an analysis
                            \* that started before the last cache-clearing event
    text,                   \* input of parseUIDs
    out,                    \* results of parseUIDs
    extension_settings,     \* the settings record as persisted, as merged, as
                            \* it is in memory and as last saved
    debugLog,               \* pipelineState.debugLog, entries as serial numbers
    isAppReady,             \* part_000 (first variant): APP_READY has arrived
    readyQueue,             \* part_000 (first variant): the deferred tasks
    queuedTasks,            \* history: the tasks passed to queueReadyTask
    ranTasks                \* history: the tasks called, in call order

\* the log and the deferred-task queue
logAndQueue == <<debugLog, isAppReady, readyQueue, queuedTasks, ranTasks>>

vars == <<variant, settings, lalib, idleTime, pipelineState, userOriginalSettings,
          hostSel, inv, cacheStale, text, out, extension_settings, logAndQueue>>

\* the log and the queue at load
LogAndQueueInit ==
    /\ debugLog = <<>>
    /\ isAppReady = FALSE
    /\ readyQueue = <<>>
    /\ queuedTasks = <<>>
    /\ ranTasks = <<>>

\* the GENERATE_AFTER handler
GA == 0

\* the invocations of the GENERATE_BEFORE handler
Slots == 1..MaxInv

\* the click handler of ps_dryRun (runAnalysisDryRun)
DR == -1

Procs == {GA, DR} \cup Slots

\* no provider/model (null, or the empty string of an unset setting)
NoSel == [api |-> "", model |-> ""]

\* the provider/model the user has selected in the host
UserSel == [api |-> "uapi", model |-> "umodel"]

\* event types of a generation trigger ("none": the event data has no type)
EventTypes == {"none", "generate", "swipe", "regenerate"}

\* a host slash command in the history of a run: what, issued by which step,
\* for which lorebook entry (the provider/model sent is the local "target")
Cmd(c, by, sel, uid) == [cmd |-> c, by |-> by, uid |-> uid]

\* texts the analysis model may reply
ReplyEmpty == <<>>

ReplyOpenOnly == OPEN \o <<"1">>

ReplyTwo == <<"o", "k", " ">> \o OPEN \o <<"2", ",", " ", "1">> \o CLOSE

Replies == {ReplyEmpty, ReplyOpenOnly, ReplyTwo}

\* an invocation that is not running
\* (pc .. target: the position and the locals, isRegen computed from eventType; cmds: the host commands issued
\* so far; guard: what the guard decided; userRegen: the user asked for a
\* swipe or a regeneration; sawCache: the cached list such a run found at its
\* cache test; stale: a cache-clearing event happened during the analysis;
\* usedStale: the run reused a stale list; reply: the analysis reply, kept
\* until the run finishes; wasEnabled: settings.enabled when the trigger came)
IdleInv == [pc |-> "idle", isRegen |-> FALSE, uids |-> NoList,
            idx |-> 0, proceed |-> TRUE, target |-> NoSel,
            cmds |-> <<>>, guard |-> "none", userRegen |-> FALSE,
            sawCache |-> NoList, stale |-> FALSE, usedStale |-> FALSE,
            reply |-> NoList, wasEnabled |-> TRUE,
            err |-> "none", logged |-> FALSE, notified |-> FALSE,
            restoreCalled |-> FALSE, startSel |-> NoSel, registry |-> "none",
            overdue |-> FALSE, injected |-> FALSE]

\* the values the steps of a handler read and write
Cur == [ps |-> pipelineState, uos |-> userOriginalSettings, host |-> hostSel,
        inv |-> inv, cstale |-> cacheStale, idle |-> idleTime]

Set(st) ==
    /\ pipelineState' = st.ps
    /\ userOriginalSettings' = st.uos
    /\ hostSel' = st.host
    /\ inv' = st.inv
    /\ cacheStale' = st.cstale
    /\ idleTime' = st.idle

\* executeSlashCommandsWithOptions(...): the command is now in flight
\* (the history is kept for the runs of the pipeline)
Issue(st, p, c) ==
    IF p = GA THEN st ELSE [st EXCEPT !.inv[p].cmds = Append(@, c)]

\* the host after a successful "/api a | /model m" (empty parts are not sent)
ApplySel(host, tgt) ==
    [api   |-> IF tgt.api = "" THEN host.api ELSE tgt.api,
     model |-> IF tgt.model = "" THEN host.model ELSE tgt.model]

\* fault injection for CacheHoldsLastAnalysis: the cache keeps only the
\* first ID of the list it is given
SetCacheFirstOnly(st, c, stale) ==
    [st EXCEPT !.ps.cachedAnalysis =
                   IF c.some /\ Len(c.v) > 1 THEN Some(<<c.v[1]>>) ELSE c,
               !.cstale = stale]

\* assignment to pipelineState.cachedAnalysis
SetCache(st, c, stale) ==
    [st EXCEPT !.ps.cachedAnalysis = c, !.cstale = stale]

parseUIDs(t) ==
    IF variant = "index" THEN parseUIDs_index(t) ELSE parseUIDs_part(t)

\* ------------------------------------------------------------------------
\*  The pipeline: the synchronous segments between two awaits
\* ------------------------------------------------------------------------
\* restoreUserSettings returns at once
RestoreEarly(st) ==
    st.uos.api = "" \/ st.uos.model = "" \/ st.ps.isRestoring

\* restoreUserSettings up to its await; the invocation waits at pcw
restoreUserSettings(st, p, pcw) ==
    Issue([st EXCEPT !.ps.isRestoring = TRUE,
                     !.inv[p].pc = pcw,
                     !.inv[p].target = st.uos],
          p, Cmd("/api", "restore", st.uos, NaN))

\* restoreUserSettings after its await
restoreUserSettingsDone(st, p, outcome) ==
    [st EXCEPT !.host = IF outcome = "ok" THEN ApplySel(@, st.inv[p].target) ELSE @,
               !.uos = IF variant = "part" /\ outcome # "ok" THEN @ ELSE NoSel,
               !.ps.isRestoring = FALSE]

\* fault injection for BusyFlagReleased: the flag is released only on the
\* success path, as if the reset stood at the end of the try block
FinishKeepsBusy(st, p, res) ==
    LET st1 == [st EXCEPT !.ps.isRunning = IF res THEN FALSE ELSE @,
                          !.inv[p].pc = "hret",
                          !.inv[p].proceed = res,
                          !.inv[p].reply = NoList,
                          !.inv[p].registry = "none"]
    IN  IF variant = "part" /\ ~res THEN SetCache(st1, NoList, FALSE) ELSE st1

\* the finally block, the return, and the end of the event handler
Finish(st, p, res) ==
    LET st1 == [st EXCEPT !.ps.isRunning = FALSE,
                          !.inv[p].pc = "hret",
                          !.inv[p].proceed = res,
                          !.inv[p].reply = NoList,
                          !.inv[p].registry = "none"]
    IN  IF variant = "part" /\ ~res THEN SetCache(st1, NoList, FALSE) ELSE st1

\* fault injection for FailuresHandledAlike: a catch block that shows no
\* notification
CatchSilent(st, p) ==
    LET st1 == [st EXCEPT !.inv[p].logged = TRUE, !.inv[p].restoreCalled = TRUE]
    IN  IF RestoreEarly(st1) THEN Finish(st1, p, FALSE)
        ELSE restoreUserSettings(st1, p, "c_restoring")

\* the catch block
Catch(st, p) ==
    LET st1 == [st EXCEPT !.inv[p].logged = TRUE, !.inv[p].notified = TRUE,
                          !.inv[p].restoreCalled = TRUE]
    IN  IF RestoreEarly(st1) THEN Finish(st1, p, FALSE)
        ELSE restoreUserSettings(st1, p, "c_restoring")

\* fault injection for SwitchErrorAborts: a throw that leaves through the
\* finally block only
ThrowPastCatch(st, p, why) == Finish([st EXCEPT !.inv[p].err = why], p, FALSE)

\* fault injection for NoRetries: a failed analysis call is sent again
ThrowRetry(st, p, why) ==
    IF why = "analysis" /\ Len(st.inv[p].cmds) < 4
    THEN Issue([st EXCEPT !.inv[p].pc = "genraw"], p,
               Cmd("/genraw", "analysis", NoSel, NaN))
    ELSE Catch([st EXCEPT !.inv[p].err = why], p)

\* a throw inside the try block: control passes to the catch block
\* (why: what threw, kept as history)
Throw(st, p, why) == Catch([st EXCEPT !.inv[p].err = why], p)

\* the /genraw call of the analysis
IssueGenraw(st, p) ==
    Issue([st EXCEPT !.inv[p].pc = "genraw"], p,
          Cmd("/genraw", "analysis", NoSel, NaN))

\* applyModelEnvironment(stage) up to its await, or through to what follows
\* when it returns or throws at once
applyModelEnvironment(st, p, stage) ==
    LET cfg == IF stage = "stage1"
               THEN [api |-> settings.stage1Api, model |-> settings.stage1Model]
               ELSE [api |-> settings.stage2Api, model |-> settings.stage2Model]
        tgt == IF variant = "index" /\ stage = "stage2"
                  /\ (cfg.api = "" \/ cfg.model = "")
               THEN st.uos ELSE cfg
        send == Issue([st EXCEPT !.inv[p].pc = IF stage = "stage1" THEN "env1" ELSE "env2",
                                 !.inv[p].target = tgt],
                      p, Cmd("/api", stage, tgt, NaN))
    IN  IF variant = "index"
        THEN IF tgt.api = "" \/ tgt.model = "" THEN Throw(st, p, "missing") ELSE send
        ELSE IF tgt.api = "" /\ tgt.model = ""
             THEN IF stage = "stage1" THEN IssueGenraw(st, p) ELSE Finish(st, p, TRUE)
             ELSE send

\* fault injection for CallOrder: the stage-2 switch is sent before the
\* k-th /wi-trigger call
IssueWiAfterSwitch(st, p, k) ==
    Issue(Issue([st EXCEPT !.inv[p].pc = "wi", !.inv[p].idx = k], p,
                Cmd("/api", "stage2", NoSel, NaN)),
          p, Cmd("/wi-trigger", "activate", NoSel, st.inv[p].uids.v[k]))

\* the k-th /wi-trigger call of the activation loop
IssueWi(st, p, k) ==
    Issue([st EXCEPT !.inv[p].pc = "wi", !.inv[p].idx = k], p,
          Cmd("/wi-trigger", "activate", NoSel, st.inv[p].uids.v[k]))

\* from "if (uidsToActivate.length > 0)" on
Activate(st, p) ==
    LET u == st.inv[p].uids
    IN  IF variant = "index"
        THEN IF ~u.some THEN Throw(st, p, "activation")
             ELSE IF Len(u.v) > 0 THEN IssueWi(st, p, 1)
             ELSE applyModelEnvironment(st, p, "stage2")
        ELSE IF Len(u.v) > 0 /\ settings.lorebookFile # "" /\ lalib
             THEN IssueWi(st, p, 1)
             ELSE applyModelEnvironment(st, p, "stage2")

\* the body of the try block from the cache test on
\* (hasLast: the chat has a last message)
TryBody(st, p, hasLast) ==
    LET isRegen == st.inv[p].isRegen
        cache   == st.ps.cachedAnalysis
        st1     == [st EXCEPT !.inv[p].sawCache =
                                  IF st.inv[p].userRegen THEN cache ELSE NoList,
                              !.inv[p].usedStale = isRegen /\ cache.some /\ st.cstale]
    IN  IF isRegen /\ cache.some
        THEN IF settings.smartRegeneration /\ (hasLast \/ variant = "part")
             THEN Issue([st1 EXCEPT !.inv[p].pc = "inject",
                                    !.inv[p].uids = IF variant = "part" THEN cache ELSE @],
                        p, Cmd("/inject", "regen", NoSel, NaN))
             ELSE Activate([st1 EXCEPT !.inv[p].uids = cache], p)
        ELSE IF variant = "index"
             THEN LET st2 == SetCache(st1, NoList, FALSE)
                  IN  IF settings.lorebookFile = ""
                      THEN Throw(st2, p, "registry")
                      ELSE [st2 EXCEPT !.inv[p].pc = "registry"]
             ELSE applyModelEnvironment(
                      [st1 EXCEPT !.inv[p].registry =
                                      IF settings.lorebookFile = ""
                                      THEN "[ERROR:" ELSE "listing"],
                      p, "stage1")

\* lines 378-381 of index.js, then the try body
SaveAndTry(st, p, hasLast) ==
    TryBody([st EXCEPT !.uos = st.host, !.inv[p].startSel = st.host], p, hasLast)

\* fault injection for OneActiveRun: a guard that does not test isRunning
PipelineGuardNoBusy(st, shift) ==
    IF variant = "index"
    THEN IF ~settings.enabled THEN "disabled"
         ELSE IF ~st.ps.dependenciesMet THEN "nodeps"
         ELSE "ran"
    ELSE IF ~settings.enabled THEN "disabled"
         ELSE IF shift THEN "shift"
         ELSE "ran"

\* fault injection for DisabledIssuesNothing: a guard that does not test
\* settings.enabled
PipelineGuardNoEnabled(st, shift) ==
    IF variant = "index"
    THEN IF ~st.ps.dependenciesMet THEN "nodeps"
         ELSE IF st.ps.isRunning THEN "running"
         ELSE "ran"
    ELSE IF st.ps.isRunning THEN "running"
         ELSE IF shift THEN "shift"
         ELSE "ran"

\* fault injection for NoActivationWithoutLALib: a guard that does not test
\* pipelineState.dependenciesMet
PipelineGuardNoDeps(st, shift) ==
    IF variant = "index"
    THEN IF ~settings.enabled THEN "disabled"
         ELSE IF st.ps.isRunning THEN "running"
         ELSE "ran"
    ELSE IF ~settings.enabled THEN "disabled"
         ELSE IF st.ps.isRunning THEN "running"
         ELSE IF shift THEN "shift"
         ELSE "ran"

\* the guard of handlePipelineTrigger: why the trigger is skipped, or "ran"
PipelineGuard(st, shift) ==
    IF variant = "index"
    THEN IF ~settings.enabled THEN "disabled"
         ELSE IF ~st.ps.dependenciesMet THEN "nodeps"
         ELSE IF st.ps.isRunning THEN "running"
         ELSE "ran"
    ELSE IF ~settings.enabled THEN "disabled"
         ELSE IF st.ps.isRunning THEN "running"
         ELSE IF shift THEN "shift"
         ELSE "ran"

\* ------------------------------------------------------------------------
\*  The pipeline: actions
\* ------------------------------------------------------------------------
\* the frame of every pipeline step
Frame == UNCHANGED <<variant, settings, lalib, text, out, extension_settings, logAndQueue>>

\* no handler result is waiting to be taken by the host: the host takes it in
\* the same turn of the event loop, before any other event is handled
Settled == \A q \in Slots : inv[q].pc # "hret"

\* the host emits the generation trigger: the event handler calls
\* handlePipelineTrigger, which runs up to its first await (or returns)
handlePipelineTrigger(p, type, shift, hasLast) ==
    /\ Settled
    /\ inv[p].pc = "idle"
    /\ \A q \in Slots : q < p => inv[q].pc # "idle"
    /\ LET g   == PipelineGuard(Cur, shift)
           ev  == IF variant = "index"
                  THEN (IF type = "none" THEN "generate" ELSE type)
                  ELSE "generate"
           st0 == [Cur EXCEPT !.inv[p] =
                      IF g = "ran"
                      THEN [IdleInv EXCEPT !.isRegen = ev \in {"swipe", "regenerate"},
                                           !.guard = g,
                                           !.userRegen = type \in {"swipe", "regenerate"},
                                           !.wasEnabled = settings.enabled]
                      ELSE [IdleInv EXCEPT !.guard = g,
                                           !.wasEnabled = settings.enabled]]
       IN  IF variant = "index"
           THEN IF g # "ran"
                THEN Set([st0 EXCEPT !.inv[p].pc = "hret", !.inv[p].proceed = TRUE])
                ELSE LET st1 == [st0 EXCEPT !.ps.isRunning = TRUE, !.idle = 0]
                     IN  IF RestoreEarly(st1)
                         THEN Set(SaveAndTry(st1, p, hasLast))
                         ELSE Set(restoreUserSettings(st1, p, "restoring"))
           ELSE LET st1 == [st0 EXCEPT !.idle = 0]
                IN  IF g # "ran"
                    THEN Set(SetCache([st1 EXCEPT !.inv[p].pc = "hret",
                                                  !.inv[p].proceed = FALSE],
                                      NoList, FALSE))
                    ELSE Set(TryBody([st1 EXCEPT !.ps.isRunning = TRUE,
                                                 !.uos = st1.host,
                                                 !.inv[p].startSel = st1.host],
                                     p, hasLast))
    /\ Frame

\* index.js: the restore awaited at the start of the try block completes
RestoreDone(p, outcome, hasLast) ==
    /\ Settled
    /\ inv[p].pc = "restoring"
    /\ Set(SaveAndTry(restoreUserSettingsDone(Cur, p, outcome), p, hasLast))
    /\ Frame

\* index.js: the fetch of getLorebookRegistry completes
RegistryDone(p, res) ==
    /\ Settled
    /\ inv[p].pc = "registry"
    /\ IF res = "critical" THEN Set(Throw(Cur, p, "registry"))
       ELSE Set(applyModelEnvironment(
                    [Cur EXCEPT !.inv[p].registry =
                                    IF res = "notice" THEN "[NOTICE:" ELSE "listing"],
                    p, "stage1"))
    /\ Frame

\* the stage-1 switch completes
Env1Done(p, outcome) ==
    /\ Settled
    /\ inv[p].pc = "env1"
    /\ IF outcome = "ok"
       THEN Set(IssueGenraw([Cur EXCEPT !.host = ApplySel(@, inv[p].target)], p))
       ELSE Set(Throw(Cur, p, "switch1"))
    /\ Frame

\* the /genraw call completes or fails
GenrawDone(p, outcome, reply) ==
    /\ Settled
    /\ inv[p].pc = "genraw"
    /\ IF outcome = "ok"
       THEN LET u   == Some(parseUIDs(reply))
                st1 == SetCache([Cur EXCEPT !.inv[p].uids = u,
                                            !.inv[p].reply = Some(reply),
                                            !.inv[p].registry = "none",
                                            !.inv[p].overdue = FALSE],
                                u, inv[p].stale)
            IN  Set(Activate(st1, p))
       ELSE Set(Throw([Cur EXCEPT !.inv[p].registry = "none",
                                  !.inv[p].overdue = FALSE], p, "analysis"))
    /\ Frame

\* 45 seconds have passed since the /genraw call was sent and it has not
\* completed: the timer of withTimeout rejects the awaited race (part_000);
\* index.js awaits the call alone and goes on waiting
AnalysisDeadline(p) ==
    /\ Settled
    /\ inv[p].pc = "genraw"
    /\ ~inv[p].overdue
    /\ IF variant = "part"
       THEN Set(Throw([Cur EXCEPT !.inv[p].registry = "none",
                                  !.inv[p].overdue = TRUE], p, "timeout"))
       ELSE Set([Cur EXCEPT !.inv[p].overdue = TRUE])
    /\ Frame

\* the /inject call of applySmartRegeneration completes or throws
\* (history, kept with the GENERATE_AFTER handler: the host now holds the
\* injected message)
InjectDone(p, outcome) ==
    /\ Settled
    /\ inv[p].pc = "inject"
    /\ LET st1 == [Cur EXCEPT !.inv[GA].injected = @ \/ outcome = "ok"]
       IN  IF variant = "index"
           THEN IF outcome = "ok"
                THEN Set(Activate([st1 EXCEPT !.inv[p].uids = pipelineState.cachedAnalysis], p))
                ELSE Set(Throw(st1, p, "inject"))
           ELSE Set(Activate(st1, p))
    /\ Frame

\* fault injection for OneTriggerPerId: a loop that gives up when the host
\* reports a /wi-trigger as failed
WiDoneChecked(p, outcome) ==
    /\ Settled
    /\ inv[p].pc = "wi"
    /\ IF outcome = "error" THEN Set(Throw(Cur, p, "activation"))
       ELSE IF inv[p].idx < Len(inv[p].uids.v)
       THEN Set(IssueWi(Cur, p, inv[p].idx + 1))
       ELSE Set(applyModelEnvironment(Cur, p, "stage2"))
    /\ Frame

\* a /wi-trigger call completes; the host reports it as done or as failed
\* (outcome), and the loop does not look at the result
WiDone(p, outcome) ==
    /\ Settled
    /\ inv[p].pc = "wi"
    /\ IF inv[p].idx < Len(inv[p].uids.v)
       THEN Set(IssueWi(Cur, p, inv[p].idx + 1))
       ELSE Set(applyModelEnvironment(Cur, p, "stage2"))
    /\ Frame

\* the stage-2 switch completes
Env2Done(p, outcome) ==
    /\ Settled
    /\ inv[p].pc = "env2"
    /\ IF outcome = "ok"
       THEN Set(Finish([Cur EXCEPT !.host = ApplySel(@, inv[p].target)], p, TRUE))
       ELSE Set(Throw(Cur, p, "switch2"))
    /\ Frame

\* the restore awaited in the catch block completes
CatchRestoreDone(p, outcome) ==
    /\ Settled
    /\ inv[p].pc = "c_restoring"
    /\ Set(Finish(restoreUserSettingsDone(Cur, p, outcome), p, FALSE))
    /\ Frame

\* the host has taken the handler's result
HandlerReturned(p) ==
    /\ inv[p].pc = "hret"
    /\ inv' = [inv EXCEPT ![p] = IdleInv]
    /\ UNCHANGED <<pipelineState, userOriginalSettings, hostSel, cacheStale,
                   idleTime>>
    /\ Frame

\* the host emits GENERATE_AFTER
GenerateAfter ==
    /\ Settled
    /\ inv[GA].pc = "idle"
    /\ IF RestoreEarly(Cur)
       THEN IF variant = "index"
            THEN Set(Issue([Cur EXCEPT !.inv[GA].pc = "removing"], GA,
                           Cmd("/inject-remove", "cleanup", NoSel, NaN)))
            ELSE Set(Cur)
       ELSE Set(restoreUserSettings(Cur, GA, "restoring"))
    /\ Frame

\* fault injection for InjectionRemoved: a restore whose failure reaches the
\* catch block of the GENERATE_AFTER handler, past the /inject-remove call
GenerateAfterRestoreThrows(outcome) ==
    /\ Settled
    /\ inv[GA].pc = "restoring"
    /\ LET st1 == restoreUserSettingsDone(Cur, GA, outcome)
       IN  IF variant = "index" /\ outcome = "ok"
           THEN Set(Issue([st1 EXCEPT !.inv[GA].pc = "removing"], GA,
                          Cmd("/inject-remove", "cleanup", NoSel, NaN)))
           ELSE Set([st1 EXCEPT !.inv[GA] =
                                    [IdleInv EXCEPT !.injected = st1.inv[GA].injected]])
    /\ Frame

\* the restore of the GENERATE_AFTER handler completes
GenerateAfterRestoreDone(outcome) ==
    /\ Settled
    /\ inv[GA].pc = "restoring"
    /\ LET st1 == restoreUserSettingsDone(Cur, GA, outcome)
       IN  IF variant = "index"
           THEN Set(Issue([st1 EXCEPT !.inv[GA].pc = "removing"], GA,
                          Cmd("/inject-remove", "cleanup", NoSel, NaN)))
           ELSE Set([st1 EXCEPT !.inv[GA] =
                                    [IdleInv EXCEPT !.injected = st1.inv[GA].injected]])
    /\ Frame

\* index.js: the /inject-remove of the GENERATE_AFTER handler completes
\* (the host no longer holds the injected message)
GenerateAfterRemoveDone ==
    /\ Settled
    /\ inv[GA].pc = "removing"
    /\ inv' = [inv EXCEPT ![GA] = IdleInv]
    /\ UNCHANGED <<pipelineState, userOriginalSettings, hostSel, cacheStale,
                   idleTime>>
    /\ Frame

\* positions of a run whose analysis has started and not yet written the cache
AnalysisPcs == {"registry", "env1", "genraw"}

\* the cache is cleared by an event; history: running analyses become stale
ClearCacheEvent ==
    /\ Settled
    /\ pipelineState' = [pipelineState EXCEPT !.cachedAnalysis = NoList]
    /\ cacheStale' = FALSE
    /\ inv' = [p \in Procs |->
                 IF inv[p].pc \in AnalysisPcs
                 THEN [inv[p] EXCEPT !.stale = TRUE] ELSE inv[p]]
    /\ UNCHANGED <<userOriginalSettings, hostSel, idleTime>>
    /\ Frame

\* the MESSAGE_DELETED handler
MessageDeleted == ClearCacheEvent

\* the onclick handler of ps_clearCache
ClearCacheClick == ClearCacheEvent

\* the onchange handler of ps_enabled
EnabledChange ==
    /\ Settled
    /\ settings' = [settings EXCEPT !.enabled = ~@]
    /\ UNCHANGED <<variant, lalib, idleTime, pipelineState, userOriginalSettings,
                   hostSel, inv, cacheStale, text, out, extension_settings, logAndQueue>>

\* time passes
Tick ==
    /\ Settled
    /\ idleTime < MaxIdle
    /\ idleTime' = idleTime + 1
    /\ UNCHANGED <<variant, settings, lalib, pipelineState, userOriginalSettings,
                   hostSel, inv, cacheStale, text, out, extension_settings, logAndQueue>>

\* no input of parseUIDs
NoInput == [pre |-> <<>>, body |-> "none", toks |-> <<>>, post |-> <<>>]

\* results of parseUIDs not computed
NoOut == [done |-> FALSE, index |-> <<>>, pipeline |-> <<>>, part |-> <<>>]

\* no settings record (extension_settings[EXTENSION_NAME] is undefined)
NoRecord == [some |-> FALSE, rec |-> <<>>]

\* a settings record with the keys and values of r
Record(r) == [some |-> TRUE, rec |-> r]

\* the settings store before the extension has loaded it, with p persisted
Unloaded(p) == [phase |-> "persisted", input |-> p, merged |-> NoRecord,
                mem |-> p, saved |-> p]

\* a complete configuration, the pipeline switched off (the default)
FullConfig == [enabled |-> FALSE, smartRegeneration |-> TRUE,
               lorebookFile |-> "book",
               stage1Api |-> "google", stage1Model |-> "gemini-2.5-flash-lite",
               stage2Api |-> "claude", stage2Model |-> "sonnet"]

\* the settings records the runs start from
Configs == {FullConfig,
            [FullConfig EXCEPT !.smartRegeneration = FALSE],
            [FullConfig EXCEPT !.lorebookFile = ""],
            [FullConfig EXCEPT !.stage1Api = "", !.stage1Model = ""],
            [FullConfig EXCEPT !.stage2Api = "", !.stage2Model = ""]}

\* the state after the extension has initialized
Init ==
    /\ variant \in {"index", "part"}
    /\ settings \in Configs
    /\ lalib \in BOOLEAN
    /\ ~lalib => settings = FullConfig
    /\ idleTime = 0
    /\ pipelineState = [isRunning |-> FALSE, cachedAnalysis |-> NoList,
                        isRestoring |-> FALSE,
                        dependenciesMet |-> (variant = "index" /\ lalib)]
    /\ userOriginalSettings = NoSel
    /\ hostSel = UserSel
    /\ inv = [p \in Procs |-> IdleInv]
    /\ cacheStale = FALSE
    /\ text = NoInput
    /\ out = NoOut
    /\ extension_settings = Unloaded(NoRecord)
    /\ LogAndQueueInit

Next ==
    \/ \E p \in Slots, type \in EventTypes,
          shift \in (IF variant = "part" THEN BOOLEAN ELSE {FALSE}),
          hasLast \in (IF variant = "index" THEN BOOLEAN ELSE {TRUE}) :
          handlePipelineTrigger(p, type, shift, hasLast)
    \/ \E p \in Slots, outcome \in {"ok", "error"}, hasLast \in BOOLEAN :
          RestoreDone(p, outcome, hasLast)
    \/ \E p \in Slots, res \in {"ok", "notice", "critical"} : RegistryDone(p, res)
    \/ \E p \in Slots, outcome \in {"ok", "error"} : Env1Done(p, outcome)
    \/ \E p \in Slots, outcome \in {"ok", "error"}, reply \in Replies :
          GenrawDone(p, outcome, reply)
    \/ \E p \in Slots : AnalysisDeadline(p)
    \/ \E p \in Slots, outcome \in {"ok", "throw"} : InjectDone(p, outcome)
    \/ \E p \in Slots, outcome \in {"ok", "error"} : WiDone(p, outcome)
    \/ \E p \in Slots, outcome \in {"ok", "error"} : Env2Done(p, outcome)
    \/ \E p \in Slots, outcome \in {"ok", "error"} : CatchRestoreDone(p, outcome)
    \/ \E p \in Slots : HandlerReturned(p)
    \/ GenerateAfter
    \/ \E outcome \in {"ok", "error"} : GenerateAfterRestoreDone(outcome)
    \/ GenerateAfterRemoveDone
    \/ MessageDeleted
    \/ ClearCacheClick
    \/ EnabledChange
    \/ Tick

Spec == Init /\ [][Next]_vars

\* ------------------------------------------------------------------------
\*  Properties of the pipeline (specification Spec)
\* ------------------------------------------------------------------------
\* the invocation p of handlePipelineTrigger is between its guard and its
\* finally block
Active(p) == inv[p].pc \notin {"idle", "hret"}

\* the host commands named c among cmds
CmdCount(cmds, c) == Cardinality({k \in 1..Len(cmds) : cmds[k].cmd = c})

\* the entries the /wi-trigger commands among cmds name, in order
RECURSIVE WiUids(_)
WiUids(cmds) ==
    IF cmds = <<>> THEN <<>>
    ELSE (IF cmds[1].cmd = "/wi-trigger" THEN <<cmds[1].uid>> ELSE <<>>)
         \o WiUids(Tail(cmds))

\* an opening tag is followed, somewhere, by a closing tag
HasTag(t) ==
    \E i \in 1..Len(t) :
        /\ StartsAt(t, i, OPEN)
        /\ \E j \in (i + Len(OPEN))..Len(t) : StartsAt(t, j, CLOSE)

\* C1: at most one invocation of handlePipelineTrigger is between its guard
\* and its finally block, whatever the interleaving of triggers, and
\* isRunning is true exactly while there is one.
OneActiveRun ==
    /\ Cardinality({p \in Slots : Active(p)}) <= 1
    /\ pipelineState.isRunning <=> \E p \in Slots : Active(p)

\* C1, the case: a trigger arrived while a run was suspended at its analysis
\* call, and was turned away by the guard.
OneActiveRunWitness ==
    \E p \in Slots, q \in Slots :
        /\ inv[p].pc = "genraw"
        /\ inv[q].pc = "hret" /\ inv[q].guard = "running"
        /\ pipelineState.isRunning

\* C2: a generation trigger that arrives while isRunning is true issues no
\* host command, and when its event handler has returned cachedAnalysis,
\* lastActivity, userOriginalSettings and isRunning are what they were before.
SecondTriggerNoOp ==
    [][\A p \in Slots :
          (pipelineState.isRunning /\ inv[p].pc = "idle" /\ inv'[p].pc # "idle") =>
              /\ inv'[p].pc = "hret"
              /\ inv'[p].cmds = <<>>
              /\ pipelineState'.cachedAnalysis = pipelineState.cachedAnalysis
              /\ idleTime' = idleTime
              /\ userOriginalSettings' = userOriginalSettings
              /\ pipelineState'.isRunning = pipelineState.isRunning]_vars

\* C3: a run started by a swipe or regenerate trigger that finds a cached list
\* issues no /genraw, and when it has set the pipeline up the entries it has
\* triggered are the cached list, in order.
RegenReusesCache ==
    \A p \in Slots :
        (inv[p].userRegen /\ inv[p].sawCache.some) =>
            /\ CmdCount(inv[p].cmds, "/genraw") = 0
            /\ (inv[p].pc = "hret" /\ inv[p].proceed) =>
                   WiUids(inv[p].cmds) = inv[p].sawCache.v

\* C4: an invocation whose generation trigger arrived while settings.enabled
\* was false has returned from the guard and has issued no host command (so
\* no /genraw and no /wi-trigger).
DisabledIssuesNothing ==
    \A p \in Slots :
        (inv[p].pc # "idle" /\ ~inv[p].wasEnabled) =>
            (inv[p].pc = "hret" /\ inv[p].cmds = <<>>)

\* C4, the case: a trigger has been turned away because the pipeline is
\* disabled, after it had run once.
DisabledIssuesNothingWitness ==
    \E p \in Slots :
        /\ inv[p].pc = "hret" /\ ~inv[p].wasEnabled
        /\ inv[p].cmds = <<>>
        /\ pipelineState.cachedAnalysis.some

\* C6: when the analysis reply holds no <UIDs>...</UIDs> tag, parseUIDs has
\* given the empty list, and the run has gone on to send the stage-2 switch
\* having triggered no lorebook entry (a run that has no stage-2 switch to
\* send has finished by then).
NoTagNoEntries ==
    \A p \in Slots :
        (inv[p].reply.some /\ ~HasTag(inv[p].reply.v)) =>
            /\ parseUIDs_pipeline(inv[p].reply.v) = <<>>
            /\ inv[p].uids = Some(<<>>)
            /\ CmdCount(inv[p].cmds, "/wi-trigger") = 0
            /\ \E k \in 1..Len(inv[p].cmds) : inv[p].cmds[k].by = "stage2"

\* C6, the case: the reply was an opening tag without a closing tag, and the
\* run is at its stage-2 switch with nothing to activate.
NoTagNoEntriesWitness ==
    \E p \in Slots :
        /\ inv[p].reply = Some(ReplyOpenOnly)
        /\ inv[p].pc = "env2"
        /\ inv[p].uids = Some(<<>>)
        /\ CmdCount(inv[p].cmds, "/wi-trigger") = 0

\* C10: no regeneration reuses a list that comes from an analysis that had
\* started before the last message-deleted event or clear-cache click.
NoStaleReuse == \A p \in Slots : ~inv[p].usedStale

\* the stage's provider/model configuration lacks a part
Incomplete(stage) ==
    IF stage = "stage1"
    THEN settings.stage1Api = "" \/ settings.stage1Model = ""
    ELSE settings.stage2Api = "" \/ settings.stage2Model = ""

\* C11: a stage whose provider/model configuration is incomplete does not
\* fail the run; it runs under the provider/model that was active when the
\* run started: the run throws no "missing provider or model" error, an
\* analysis call under an incomplete stage-1 configuration follows no switch
\* away from that selection, and a run that lets the generation proceed
\* under an incomplete stage-2 configuration has last switched to it
IncompleteStageFallsBack == \A p \in Slots :
    /\ inv[p].err # "missing"
    /\ (Incomplete("stage1") /\ inv[p].pc = "genraw")
          => inv[p].target \in {NoSel, inv[p].startSel}
    /\ (Incomplete("stage2") /\ inv[p].pc = "hret" /\ inv[p].guard = "ran"
            /\ inv[p].proceed)
          => inv[p].target = inv[p].startSel

\* no handler is running and no selection is saved for a restore
Quiet ==
    /\ \A p \in Procs : inv[p].pc = "idle"
    /\ userOriginalSettings = NoSel

\* C12: the runs' provider/model switches are undone: after GENERATE_AFTER
\* has restored and cleared the saved selection and every handler has
\* returned, the host is on the user's own selection
HostEndsOnUserSelection == Quiet => hostSel = UserSel

\* the commands of a run that follow its last command issued by "by"
After(cmds, by) ==
    LET ks == {k \in 1..Len(cmds) : cmds[k].by = by}
    IN  IF ks = {} THEN cmds
        ELSE SubSeq(cmds, (CHOOSE k \in ks : \A j \in ks : j <= k) + 1, Len(cmds))

\* the run of p has been aborted by a failed stage switch
SwitchFailed(p) == inv[p].err \in {"switch1", "switch2"}

\* C13: a stage switch that comes back with isError aborts the run: after
\* the failed switch the run issues no command but the restore of the user's
\* selection, the catch block calls the restore, and the handler returns
\* false
SwitchErrorAborts == \A p \in Slots : SwitchFailed(p) =>
    LET rest == After(inv[p].cmds,
                      IF inv[p].err = "switch1" THEN "stage1" ELSE "stage2")
    IN  /\ inv[p].pc \in {"c_restoring", "hret"}
        /\ \A k \in 1..Len(rest) : rest[k].by = "restore"
        /\ inv[p].err = "switch1" =>
              /\ CmdCount(inv[p].cmds, "/genraw") = 0
              /\ CmdCount(inv[p].cmds, "/wi-trigger") = 0
        /\ inv[p].restoreCalled
        /\ inv[p].pc = "c_restoring" => Len(rest) = 1
        /\ inv[p].pc = "hret" => ~inv[p].proceed

SwitchErrorAbortsWitness == \E p \in Slots :
    /\ inv[p].err = "switch2" /\ inv[p].pc = "hret" /\ ~inv[p].proceed
    /\ CmdCount(inv[p].cmds, "/wi-trigger") > 0
    /\ inv[p].cmds[Len(inv[p].cmds)].by = "restore"

\* C14: a run with no lorebook selected does not throw for it: the registry
\* builder's "[ERROR: No lorebook file selected ..." placeholder is embedded
\* in the analysis prompt, and the prompt is sent
NoLorebookStillAnalyses == \A p \in Slots : settings.lorebookFile = "" =>
    /\ inv[p].err # "registry"
    /\ inv[p].pc = "genraw" => inv[p].registry = "[ERROR:"

\* the run of p has met a failure: something threw inside its try block, or
\* its registry builder reported an error
Failed(p) == inv[p].err # "none" \/ inv[p].registry = "[ERROR:"

ShiftBypassLeavesState == [][\A p \in Slots :
    (inv[p].pc = "idle" /\ inv'[p].pc # "idle" /\ inv'[p].guard = "shift") =>
       /\ inv'[p].pc = "hret"
       /\ inv'[p].cmds = <<>>
       /\ ~pipelineState'.isRunning
       /\ pipelineState'.cachedAnalysis = pipelineState.cachedAnalysis
       /\ userOriginalSettings' = userOriginalSettings]_vars

\* the number of commands of a run issued by "by"
ByCount(cmds, by) == Cardinality({k \in 1..Len(cmds) : cmds[k].by = by})

\* C17: nothing is retried: one trigger issues at most one /genraw and at
\* most one switch command per stage, and a run that has failed issues
\* nothing more than the restore of its catch block
NoRetries == \A p \in Slots :
    /\ CmdCount(inv[p].cmds, "/genraw") <= 1
    /\ ByCount(inv[p].cmds, "stage1") <= 1
    /\ ByCount(inv[p].cmds, "stage2") <= 1
    /\ inv[p].err # "none" =>
          /\ inv[p].pc \in {"c_restoring", "hret"}
          /\ ByCount(inv[p].cmds, "restore") <= 2
          /\ inv[p].pc = "c_restoring" =>
                inv[p].cmds[Len(inv[p].cmds)].by = "restore"

NoRetriesWitness == \E p \in Slots :
    /\ inv[p].err = "analysis" /\ inv[p].pc = "hret"
    /\ CmdCount(inv[p].cmds, "/genraw") = 1
    /\ ByCount(inv[p].cmds, "stage1") = 1

\* C18: the analysis call is guarded by the 45-second timeout: once the time
\* has passed without the /genraw call completing, the run no longer waits
\* for it; it has failed with the timeout, returns false and releases the
\* busy flag
AnalysisTimeoutGuards == \A p \in Slots : inv[p].overdue =>
    /\ inv[p].err = "timeout"
    /\ inv[p].pc \in {"c_restoring", "hret"}
    /\ inv[p].pc = "hret" => (~inv[p].proceed /\ ~pipelineState.isRunning)

\* every command of cmds issued by a comes before every command issued by b
Precedes(cmds, a, b) ==
    \A i \in 1..Len(cmds), j \in 1..Len(cmds) :
        (cmds[i].by = a /\ cmds[j].by = b) => i < j

\* C21: the host calls of a run that analyses come in a fixed order: the
\* stage-1 switch before the /genraw call, the /genraw call (whose reply is
\* parsed when it returns) before every /wi-trigger call, every /wi-trigger
\* call before the stage-2 switch, and nothing after the stage-2 switch
\* when the handler returns true
CallOrder == \A p \in Slots : CmdCount(inv[p].cmds, "/genraw") > 0 =>
    /\ Precedes(inv[p].cmds, "stage1", "analysis")
    /\ Precedes(inv[p].cmds, "analysis", "activate")
    /\ Precedes(inv[p].cmds, "analysis", "stage2")
    /\ Precedes(inv[p].cmds, "activate", "stage2")
    /\ CmdCount(inv[p].cmds, "/wi-trigger") > 0 => inv[p].uids.some
    /\ (inv[p].pc = "hret" /\ inv[p].proceed /\ ~Incomplete("stage2"))
          => inv[p].cmds[Len(inv[p].cmds)].by = "stage2"
    /\ (inv[p].pc = "hret" /\ inv[p].proceed /\ ~Incomplete("stage1"))
          => ByCount(inv[p].cmds, "stage1") = 1

CallOrderWitness == \E p \in Slots :
    /\ inv[p].pc = "hret" /\ inv[p].proceed
    /\ ByCount(inv[p].cmds, "stage1") = 1
    /\ CmdCount(inv[p].cmds, "/genraw") = 1
    /\ CmdCount(inv[p].cmds, "/wi-trigger") = 2
    /\ inv[p].cmds[Len(inv[p].cmds)].by = "stage2"

\* a host call awaited by a pipeline run settles
RunCallSettles ==
    \/ \E p \in Slots, outcome \in {"ok", "error"}, hasLast \in BOOLEAN :
          RestoreDone(p, outcome, hasLast)
    \/ \E p \in Slots, res \in {"ok", "notice", "critical"} : RegistryDone(p, res)
    \/ \E p \in Slots, outcome \in {"ok", "error"} : Env1Done(p, outcome)
    \/ \E p \in Slots, outcome \in {"ok", "error"}, reply \in Replies :
          GenrawDone(p, outcome, reply)
    \/ \E p \in Slots, outcome \in {"ok", "throw"} : InjectDone(p, outcome)
    \/ \E p \in Slots, outcome \in {"ok", "error"} : WiDone(p, outcome)
    \/ \E p \in Slots, outcome \in {"ok", "error"} : Env2Done(p, outcome)
    \/ \E p \in Slots, outcome \in {"ok", "error"} : CatchRestoreDone(p, outcome)

\* the host takes the result of a handler
ResultTaken == \E p \in Slots : HandlerReturned(p)

\* the host emits its generation trigger when no earlier trigger is being
\* handled (the host serializes the event)
SerialTrigger ==
    /\ \A q \in Slots : inv[q].pc = "idle"
    /\ \E p \in Slots, type \in EventTypes,
          shift \in (IF variant = "part" THEN BOOLEAN ELSE {FALSE}),
          hasLast \in (IF variant = "index" THEN BOOLEAN ELSE {TRUE}) :
          handlePipelineTrigger(p, type, shift, hasLast)

LiveNext ==
    \/ SerialTrigger
    \/ RunCallSettles
    \/ ResultTaken
    \/ \E p \in Slots : AnalysisDeadline(p)
    \/ GenerateAfter
    \/ \E outcome \in {"ok", "error"} : GenerateAfterRestoreDone(outcome)
    \/ GenerateAfterRemoveDone
    \/ EnabledChange

\* the pipeline under a host that serializes its triggers, whose awaited
\* calls settle and which takes every handler result
LiveSpec ==
    Init /\ [][LiveNext]_vars /\ WF_vars(RunCallSettles) /\ WF_vars(ResultTaken)

RecordedIsUsersOwn == userOriginalSettings \in {NoSel, UserSel}

\* C24: after a pipeline run that fails, at whatever step, the cached ID
\* list is empty: the cache is null or holds no ID
FailedRunEmptiesCache == \A p \in Slots :
    (inv[p].pc = "hret" /\ inv[p].guard = "ran" /\ inv[p].err # "none")
        => \/ pipelineState.cachedAnalysis = NoList
           \/ pipelineState.cachedAnalysis.v = <<>>

\* the step is taken by a run that reuses the cached list
ReuseRunStep(p) ==
    /\ inv[p].isRegen /\ inv[p].sawCache.some
    /\ inv[p].pc \notin {"idle", "hret"}
    /\ inv'[p] # inv[p]

\* the step completes an analysis successfully and leaves exactly the list
\* it returned in the cache
AnalysisWrites ==
    \E p \in Slots, reply \in Replies :
        /\ GenrawDone(p, "ok", reply)
        /\ pipelineState'.cachedAnalysis = Some(parseUIDs(reply))

\* C25, as stated: the cached list is null or exactly the list returned by
\* the most recent successfully completed analysis: only a completed analysis
\* writes a non-null value, and it writes its own list; a regeneration run
\* that reuses the cache leaves it unchanged
CacheHoldsLastAnalysis ==
    [][pipelineState'.cachedAnalysis # pipelineState.cachedAnalysis
          => IF pipelineState'.cachedAnalysis = NoList
             THEN \A p \in Slots : ~ReuseRunStep(p)
             ELSE AnalysisWrites]_vars

CacheHoldsLastAnalysisWitness == \E p \in Slots :
    /\ inv[p].pc = "hret" /\ inv[p].proceed /\ inv[p].sawCache.some
    /\ pipelineState.cachedAnalysis = inv[p].sawCache
    /\ Len(pipelineState.cachedAnalysis.v) = 2

\* C26: a restore that the host reports as failed resets isRestoring and
\* leaves the saved selection in place, so that a later restore can retry it
FailedRestoreKeepsSelection ==
    [][(\/ \E p \in Slots : CatchRestoreDone(p, "error")
        \/ GenerateAfterRestoreDone("error"))
          => /\ ~pipelineState'.isRestoring
             /\ userOriginalSettings' = userOriginalSettings]_vars

\* the run of p is past its activation step
PastActivation(p) ==
    \/ inv[p].pc = "env2"
    \/ inv[p].pc = "hret" /\ inv[p].guard = "ran" /\ inv[p].proceed

\* the /wi-trigger commands of the run of p follow the list l: one command
\* per element issued so far, in list order, one at a time, and all of them
\* once the run is past its activation
TriggersFollow(p, l) ==
    LET w == WiUids(inv[p].cmds)
    IN  /\ Len(w) <= Len(l)
        /\ w = SubSeq(l, 1, Len(w))
        /\ inv[p].pc = "wi" => Len(w) = inv[p].idx
        /\ PastActivation(p) => w = l

\* a /wi-trigger that the host reports as failed neither aborts the run nor
\* skips an ID: the run goes on as after one reported as done
FailedTriggerGoesOn ==
    \A p \in Slots :
        WiDone(p, "error") =>
            /\ WiDone(p, "ok")
            /\ Len(WiUids(inv'[p].cmds)) =
                   IF inv[p].idx < Len(inv[p].uids.v) THEN inv[p].idx + 1
                   ELSE Len(inv[p].uids.v)

\* C27, as stated: activation issues exactly one /wi-trigger per element of
\* the ID list, in list order, each awaited before the next; an empty list
\* issues none; a /wi-trigger reported as failed does not abort the run or
\* skip the remaining IDs
OneTriggerPerIdAlways ==
    [][/\ \A p \in Slots : (inv'[p] # inv[p] /\ inv'[p].uids.some) =>
              TriggersFollow(p, inv[p].uids.v)'
       /\ FailedTriggerGoesOn]_vars

\* C27, amended: the same, when a lorebook file is configured and LALib is
\* present; the second variant issues no /wi-trigger at all otherwise
OneTriggerPerId ==
    [][/\ \A p \in Slots : (inv'[p] # inv[p] /\ inv'[p].uids.some) =>
              TriggersFollow(p, IF variant = "index" \/ (settings.lorebookFile # "" /\ lalib)
                                THEN inv[p].uids.v ELSE <<>>)'
       /\ FailedTriggerGoesOn]_vars

OneTriggerPerIdWitness == \E p \in Slots :
    /\ inv[p].pc = "hret" /\ inv[p].proceed
    /\ inv[p].uids.some /\ Len(inv[p].uids.v) = 2
    /\ WiUids(inv[p].cmds) = inv[p].uids.v

\* the inactivity timeout of cleanupResources, in milliseconds
InactivityTimeout == 600000

\* how many milliseconds past the timeout the idle time is followed
MaxOver == 1

\* time passes without pipeline activity: up to the timeout, then one
\* millisecond at a time
HouseTick ==
    /\ Settled
    /\ idleTime < InactivityTimeout + MaxOver
    /\ idleTime' = IF idleTime < InactivityTimeout THEN InactivityTimeout
                   ELSE idleTime + 1
    /\ UNCHANGED <<variant, settings, lalib, pipelineState, userOriginalSettings,
                   hostSel, inv, cacheStale, text, out, extension_settings, logAndQueue>>

\* a housekeeping pass of setInterval: the cache part of cleanupResources
\* (index.js registers no housekeeping)
cleanupResources ==
    /\ Settled
    /\ variant = "part"
    /\ IF idleTime > InactivityTimeout
       THEN ClearCacheEvent
       ELSE UNCHANGED vars

\* the pipeline with its housekeeping, under a host that serializes its
\* triggers
HouseNext ==
    \/ SerialTrigger
    \/ RunCallSettles
    \/ ResultTaken
    \/ EnabledChange
    \/ HouseTick
    \/ cleanupResources

HouseSpec == Init /\ [][HouseNext]_vars

\* C28: a housekeeping pass empties the cache when more than 600000 ms have
\* passed since the last pipeline activity and leaves it alone within the
\* timeout, and lastActivity advances only when a pipeline run actually
\* starts
InactivityClearsCache ==
    [][/\ cleanupResources =>
              pipelineState'.cachedAnalysis =
                  IF idleTime > InactivityTimeout THEN NoList
                  ELSE pipelineState.cachedAnalysis
       /\ idleTime' < idleTime =>
              \E p \in Slots : inv[p].pc = "idle" /\ inv'[p].guard = "ran"]_vars

\* ------------------------------------------------------------------------
\*  The analysis dry run (runAnalysisDryRun), as the invocation DR
\*  (specification DrySpec)
\* ------------------------------------------------------------------------
\* the dry run is over; its history stays until the next one starts
DryEnd(st) == [st EXCEPT !.inv[DR].pc = "idle"]

\* index.js: the finally block of runAnalysisDryRun up to its await
DryFinally(st) ==
    Issue([st EXCEPT !.inv[DR].pc = "d_restore",
                     !.inv[DR].target = st.inv[DR].startSel],
          DR, Cmd("/api", "restore", st.inv[DR].startSel, NaN))

\* the analysis of the dry run is over (why: the exception that ended it, or
\* "none"): index.js goes on to its finally block, part_000 returns
DryAfterAnalysis(st, why) ==
    LET st1 == [st EXCEPT !.inv[DR].err = why]
    IN  IF variant = "index" THEN DryFinally(st1) ELSE DryEnd(st1)

\* the /genraw call of the dry run
DryGenraw(st) ==
    Issue([st EXCEPT !.inv[DR].pc = "d_genraw"], DR,
          Cmd("/genraw", "analysis", NoSel, NaN))

\* applyModelEnvironment('stage1') as the dry run calls it
DryEnvironment(st) ==
    LET cfg  == [api |-> settings.stage1Api, model |-> settings.stage1Model]
        send == Issue([st EXCEPT !.inv[DR].pc = "d_env1", !.inv[DR].target = cfg],
                      DR, Cmd("/api", "stage1", cfg, NaN))
    IN  IF variant = "index"
        THEN IF cfg.api = "" \/ cfg.model = ""
             THEN DryAfterAnalysis(st, "missing") ELSE send
        ELSE IF cfg.api = "" /\ cfg.model = "" THEN DryGenraw(st) ELSE send

\* the user clicks ps_dryRun: runAnalysisDryRun up to its first await
runAnalysisDryRun ==
    /\ Settled
    /\ inv[DR].pc = "idle"
    /\ LET st1 == [Cur EXCEPT !.inv[DR] = [IdleInv EXCEPT !.guard = "ran",
                                                          !.startSel = hostSel]]
       IN  IF variant = "index"
           THEN IF settings.lorebookFile = ""
                THEN Set([Cur EXCEPT !.inv[DR] = [IdleInv EXCEPT !.guard = "nolore"]])
                ELSE Set([st1 EXCEPT !.inv[DR].pc = "d_registry"])
           ELSE Set(DryEnvironment(st1))
    /\ Frame

\* index.js: the fetch of getLorebookRegistry of the dry run completes
DryRegistryDone(res) ==
    /\ Settled
    /\ inv[DR].pc = "d_registry"
    /\ IF res = "critical" THEN Set(DryAfterAnalysis(Cur, "registry"))
       ELSE Set(DryEnvironment(Cur))
    /\ Frame

\* the stage-1 switch of the dry run completes
DryEnv1Done(outcome) ==
    /\ Settled
    /\ inv[DR].pc = "d_env1"
    /\ IF outcome = "ok"
       THEN Set(DryGenraw([Cur EXCEPT !.host = ApplySel(@, inv[DR].target)]))
       ELSE Set(DryAfterAnalysis(Cur, "switch1"))
    /\ Frame

\* the /genraw call of the dry run completes or fails
DryGenrawDone(outcome) ==
    /\ Settled
    /\ inv[DR].pc = "d_genraw"
    /\ IF outcome = "ok" THEN Set(DryAfterAnalysis(Cur, "none"))
       ELSE Set(DryAfterAnalysis(Cur, "analysis"))
    /\ Frame

\* index.js: the restore command of the finally block completes
DryRestoreDone(outcome) ==
    /\ Settled
    /\ inv[DR].pc = "d_restore"
    /\ Set(DryEnd([Cur EXCEPT !.host = IF outcome = "ok"
                                       THEN ApplySel(@, inv[DR].target) ELSE @]))
    /\ Frame

\* a step of the dry run
DryStep ==
    \/ runAnalysisDryRun
    \/ \E res \in {"ok", "notice", "critical"} : DryRegistryDone(res)
    \/ \E outcome \in {"ok", "error"} : DryEnv1Done(outcome)
    \/ \E outcome \in {"ok", "error"} : DryGenrawDone(outcome)
    \/ \E outcome \in {"ok", "error"} : DryRestoreDone(outcome)

\* a host call awaited by a pipeline run completes without an error
RunCallSucceeds ==
    \/ \E p \in Slots, hasLast \in BOOLEAN : RestoreDone(p, "ok", hasLast)
    \/ \E p \in Slots, res \in {"ok", "notice"} : RegistryDone(p, res)
    \/ \E p \in Slots : Env1Done(p, "ok")
    \/ \E p \in Slots, reply \in Replies : GenrawDone(p, "ok", reply)
    \/ \E p \in Slots : InjectDone(p, "ok")
    \/ \E p \in Slots : WiDone(p, "ok")
    \/ \E p \in Slots : Env2Done(p, "ok")
    \/ \E p \in Slots : CatchRestoreDone(p, "ok")

\* the generation has finished: GENERATE_AFTER, once the run that let the
\* generation proceed has returned
GenerationFinished ==
    /\ \A q \in Slots : inv[q].pc = "idle"
    /\ GenerateAfter

\* the pipeline and the dry run side by side, under a host that serializes
\* its triggers and whose commands for the pipeline succeed
DryNext ==
    \/ SerialTrigger
    \/ RunCallSucceeds
    \/ ResultTaken
    \/ GenerationFinished
    \/ GenerateAfterRestoreDone("ok")
    \/ GenerateAfterRemoveDone
    \/ EnabledChange
    \/ DryStep

DrySpec == Init /\ [][DryNext]_vars

\* a dry run that has started is over
DryOver == inv[DR].pc = "idle" /\ inv[DR].guard = "ran"

\* C31: a dry run that has sent a provider/model switch ends by commanding
\* the host back to the provider/model that was active when it started,
\* whether its analysis succeeded or failed; no step of it changes the cached
\* ID list, isRunning or the saved user selection, and it issues no
\* /wi-trigger
DryRunRestores ==
    [][DryStep =>
          /\ pipelineState'.cachedAnalysis = pipelineState.cachedAnalysis
          /\ pipelineState'.isRunning = pipelineState.isRunning
          /\ userOriginalSettings' = userOriginalSettings
          /\ CmdCount(inv'[DR].cmds, "/wi-trigger") = 0
          /\ (DryOver' /\ ByCount(inv'[DR].cmds, "stage1") > 0) =>
                 /\ inv'[DR].cmds[Len(inv'[DR].cmds)].by = "restore"
                 /\ inv'[DR].target = inv'[DR].startSel]_vars


\* the GENERATE_AFTER handler has just finished
GenerateAfterHandled == inv[GA].pc # "idle" /\ inv'[GA].pc = "idle"

\* C32: the smart-regeneration message is injected only in a regeneration
\* run that reuses the cache while smartRegeneration is on, and once the
\* generation-finished event has been handled the host holds no injected
\* message, also when the restore of the user's settings failed.
InjectionRemoved ==
    [][/\ \A p \in Slots :
             (inv[p].pc # "inject" /\ inv'[p].pc = "inject") =>
                 /\ inv'[p].isRegen
                 /\ pipelineState.cachedAnalysis.some
                 /\ settings.smartRegeneration
       /\ GenerateAfterHandled => ~inv'[GA].injected]_vars


\* C32 witness: the run that injected is over, the restore of the
\* GENERATE_AFTER handler has failed while the host holds the injected
\* message, and the /inject-remove call is under way
InjectionRemovedWitness ==
    /\ inv[GA].pc = "removing"
    /\ inv[GA].injected
    /\ inv[GA].target # NoSel
    /\ hostSel # inv[GA].target
    /\ \A p \in Slots : inv[p].pc = "idle"


\* no invocation has sent a /wi-trigger call
NoWiTrigger == \A p \in Procs : CmdCount(inv[p].cmds, "/wi-trigger") = 0

\* no invocation of the trigger handler has sent a host command, and the busy
\* flag is not set
TriggerSkipped ==
    /\ \A p \in Slots : inv[p].cmds = <<>>
    /\ ~pipelineState.isRunning

\* C35 as stated: without LALib no /wi-trigger call is sent, and the pipeline
\* trigger is skipped (no host command, isRunning never set) even when the
\* pipeline is enabled.
NoRunWithoutLALib == ~lalib => NoWiTrigger /\ TriggerSkipped

\* C35, amended: without LALib no /wi-trigger call is sent; the trigger as a
\* whole is skipped (no host command, isRunning never set) in index.js, while
\* part_000 runs the pipeline and skips the activation only.
NoActivationWithoutLALib ==
    ~lalib => NoWiTrigger /\ (variant = "index" => TriggerSkipped)

\* C35 witness: without LALib and with the pipeline enabled, a trigger of
\* index.js has been skipped for the missing dependency
NoActivationWithoutLALibWitness ==
    /\ ~lalib
    /\ variant = "index"
    /\ settings.enabled
    /\ \E p \in Slots : inv[p].pc = "hret" /\ inv[p].guard = "nodeps"


\* a host call awaited by the dry run completes without an error
DryCallSucceeds ==
    \/ \E res \in {"ok", "notice"} : DryRegistryDone(res)
    \/ DryEnv1Done("ok")
    \/ DryGenrawDone("ok")
    \/ DryRestoreDone("ok")

\* the host emits the generation trigger once the handling of the last
\* GENERATE_AFTER is over
TriggerAfterCleanup == inv[GA].pc = "idle" /\ SerialTrigger

\* the pipeline and the dry run side by side, every host call succeeding and
\* the host events of the pipeline one after the other
OverlapNext ==
    \/ TriggerAfterCleanup
    \/ RunCallSucceeds
    \/ ResultTaken
    \/ GenerationFinished
    \/ GenerateAfterRestoreDone("ok")
    \/ GenerateAfterRemoveDone
    \/ EnabledChange
    \/ runAnalysisDryRun
    \/ DryCallSucceeds

OverlapSpec == Init /\ [][OverlapNext]_vars

\* the stage-1 selection of the settings
Stage1Sel == [api |-> settings.stage1Api, model |-> settings.stage1Model]

\* index.js: the selection the generation runs under, the stage-2 selection
\* of the settings or, when that is incomplete, the user's own
GenerationSel ==
    LET cfg == [api |-> settings.stage2Api, model |-> settings.stage2Model]
    IN  IF cfg.api = "" \/ cfg.model = "" THEN userOriginalSettings ELSE cfg

\* a run has let the generation proceed and GENERATE_AFTER has not come yet
Generating ==
    /\ userOriginalSettings # NoSel
    /\ \A q \in Slots : inv[q].pc = "idle"
    /\ inv[GA].pc = "idle"

\* no handler is under way and no saved selection waits to be restored
AllQuiet ==
    /\ \A p \in Procs : inv[p].pc = "idle"
    /\ userOriginalSettings = NoSel

\* C37: a dry run and a pipeline run of index.js that overlap do not disturb
\* each other: the analysis call of the pipeline is in flight under the
\* stage-1 selection, the generation runs under the stage-2 selection, and
\* when both are over and GENERATE_AFTER has been handled the host is on the
\* user's own selection.
DryRunDoesNotDisturb ==
    variant = "index" =>
        /\ \A p \in Slots : inv[p].pc = "genraw" => hostSel = Stage1Sel
        /\ Generating => hostSel = GenerationSel
        /\ AllQuiet => hostSel = UserSel

\* ------------------------------------------------------------------------
\*  parseUIDs on its own: the inputs, and the specification that applies the
\*  three implementations to them
\* ------------------------------------------------------------------------
\* most comma-separated tokens in a tag
MaxTokens == 3

\* the character of a decimal digit
DigitChar == [d \in 0..9 |->
    CASE d = 0 -> "0" [] d = 1 -> "1" [] d = 2 -> "2" [] d = 3 -> "3"
      [] d = 4 -> "4" [] d = 5 -> "5" [] d = 6 -> "6" [] d = 7 -> "7"
      [] d = 8 -> "8" [] d = 9 -> "9"]

\* the decimal numeral of the integer n
Numeral(n) ==
    (IF n.neg THEN <<"-">> ELSE <<>>) \o [k \in 1..Len(n.mag) |-> DigitChar[n.mag[k]]]

\* a token that is the numeral of the integer n between the paddings l and r
\* (int: the token is an integer; lead: the integer its leading digits denote)
IntToken(n, l, r) == [int |-> TRUE, lead |-> n, str |-> l \o Numeral(n) \o r]

\* a token that is not the numeral of an integer; lead is the integer its
\* leading digits denote, NaN when it does not start with a digit
RawToken(cs, lead) == [int |-> FALSE, lead |-> lead, str |-> cs]

\* 2^53 + 1, the smallest positive integer that is not an IEEE double
BigOdd == MkNum(FALSE, <<9,0,0,7,1,9,9,2,5,4,7,4,0,9,9,3>>)

IntTokens == {IntToken(Num(1), <<>>, <<>>),
              IntToken(Num(3), <<" ">>, <<>>),
              IntToken(Num(7), <<>>, <<>>),
              IntToken(Num(0), <<>>, <<>>),
              IntToken(Num(2), <<"\n">>, <<>>),
              IntToken(MkNum(TRUE, <<5>>), <<>>, <<" ">>),
              IntToken(BigOdd, <<>>, <<>>)}

RawTokens == {RawToken(<<" ", " ", " ">>, NaN),
              RawToken(<<" ", "a">>, NaN),
              RawToken(<<"3", "a", "b", "c">>, Num(3)),
              RawToken(<<"1", ".", "5">>, Num(1))}

Tokens == IntTokens \cup RawTokens

\* the token lists of at most n tokens
TokenLists(n) == UNION {[1..k -> Tokens] : k \in 0..n}

\* plain words
Words == <<"o", "k", " ">>

\* what surrounds the tokens: pre, then the tokens joined by commas inside a
\* complete tag ("tag"), after an opening tag only ("open") or bare ("none"),
\* then post (the last one has a second tag after the first)
Wraps == {[pre |-> <<>>,  body |-> "tag",  post |-> <<>>],
          [pre |-> Words, body |-> "tag",  post |-> Words],
          [pre |-> OPEN,  body |-> "tag",  post |-> <<>>],
          [pre |-> <<>>,  body |-> "open", post |-> <<>>],
          [pre |-> Words, body |-> "open", post |-> Words],
          [pre |-> <<>>,  body |-> "none", post |-> <<>>],
          [pre |-> Words, body |-> "none", post |-> Words],
          [pre |-> CLOSE, body |-> "none", post |-> OPEN],
          [pre |-> <<>>,  body |-> "tag",  post |-> Words \o OPEN \o <<"9">> \o CLOSE]}

\* the inputs of parseUIDs
Inputs == {[pre |-> w.pre, body |-> w.body, toks |-> l, post |-> w.post] :
              w \in Wraps, l \in TokenLists(MaxTokens)}

RECURSIVE Join(_)
\* the tokens separated by commas
Join(toks) ==
    IF toks = <<>> THEN <<>>
    ELSE IF Len(toks) = 1 THEN toks[1].str
    ELSE toks[1].str \o <<",">> \o Join(Tail(toks))

\* the text of an input
TextOf(in) ==
    in.pre
    \o (IF in.body = "none" THEN <<>> ELSE OPEN)
    \o Join(in.toks)
    \o (IF in.body = "tag" THEN CLOSE ELSE <<>>)
    \o in.post

\* the three implementations applied to the input text
ApplyParseUIDs ==
    /\ ~out.done
    /\ out' = [done |-> TRUE,
               index |-> parseUIDs_index(TextOf(text)),
               pipeline |-> parseUIDs_pipeline(TextOf(text)),
               part |-> parseUIDs_part(TextOf(text))]
    /\ UNCHANGED <<variant, settings, lalib, idleTime, pipelineState,
                   userOriginalSettings, hostSel, inv, cacheStale, text,
                   extension_settings, logAndQueue>>

ParseInit ==
    /\ text \in Inputs
    /\ out = NoOut
    /\ variant = "index"
    /\ settings = FullConfig
    /\ lalib = TRUE
    /\ idleTime = 0
    /\ pipelineState = [isRunning |-> FALSE, cachedAnalysis |-> NoList,
                        isRestoring |-> FALSE, dependenciesMet |-> TRUE]
    /\ userOriginalSettings = NoSel
    /\ hostSel = UserSel
    /\ inv = [p \in Procs |-> IdleInv]
    /\ cacheStale = FALSE
    /\ extension_settings = Unloaded(NoRecord)
    /\ LogAndQueueInit

ParseNext == ApplyParseUIDs

ParseSpec == ParseInit /\ [][ParseNext]_vars

\* ------------------------------------------------------------------------
\*  Properties of parseUIDs (specification ParseSpec)
\* ------------------------------------------------------------------------
\* the three implementations return l
AllReturn(l) == out.index = l /\ out.pipeline = l /\ out.part = l

RECURSIVE IntsOf(_)
\* the integers of the tokens that are integers, in order
IntsOf(toks) ==
    IF toks = <<>> THEN <<>>
    ELSE (IF toks[1].int THEN <<toks[1].lead>> ELSE <<>>) \o IntsOf(Tail(toks))

RECURSIVE LeadsOf(_)
\* the integers the tokens start with, in order
LeadsOf(toks) ==
    IF toks = <<>> THEN <<>>
    ELSE (IF isNaN(toks[1].lead) THEN <<>> ELSE <<toks[1].lead>>)
         \o LeadsOf(Tail(toks))

\* the input is a complete tag around its tokens
Tagged == text.body = "tag"

\* every token of the input is an integer
AllInt == \A k \in 1..Len(text.toks) : text.toks[k].int

\* no opening tag occurs in the text before the tag
CleanBefore == \A p \in 1..Len(text.pre) : ~StartsAt(text.pre, p, OPEN)

\* every integer of the input is at most 2^53 in magnitude
Exact ==
    \A k \in 1..Len(text.toks) :
        text.toks[k].int => ~MagLess(TwoPow53, text.toks[k].lead.mag)

\* the content of the tag has no line break
OneLine ==
    \A k \in 1..Len(text.toks) :
        \A h \in 1..Len(text.toks[k].str) :
            text.toks[k].str[h] \notin LineTerminators

\* no token that is not an integer starts with digits
NoDigitLedWord ==
    \A k \in 1..Len(text.toks) : ~text.toks[k].int => isNaN(text.toks[k].lead)

\* the content of the tag is empty or white space
Blank ==
    \A h \in 1..Len(Join(text.toks)) : Join(text.toks)[h] \in WhiteSpace

\* C5 as stated: for a tag whose content is a comma-separated list of
\* integers, every parseUIDs returns exactly those integers in order,
\* whatever text surrounds the tag.
IntegerListExact ==
    (out.done /\ Tagged /\ AllInt) => AllReturn(IntsOf(text.toks))

\* C5 amended: the same, provided no opening tag occurs in the text before
\* the tag and every integer is at most 2^53 in magnitude; for the parsers of
\* pipeline.js and part_000 provided also that the content has no line break.
IntegerListExactWhenClean ==
    (out.done /\ Tagged /\ AllInt /\ CleanBefore /\ Exact) =>
        /\ out.index = IntsOf(text.toks)
        /\ OneLine => (out.pipeline = IntsOf(text.toks) /\ out.part = IntsOf(text.toks))

\* C5, the case: "ok <UIDs>1, 3,7</UIDs>ok " has been parsed to [1,3,7].
IntegerListExactWitness ==
    /\ out.done
    /\ text = [pre |-> Words, body |-> "tag", post |-> Words,
               toks |-> <<IntToken(Num(1), <<>>, <<>>),
                          IntToken(Num(3), <<" ">>, <<>>),
                          IntToken(Num(7), <<>>, <<>>)>>]
    /\ AllReturn(<<Num(1), Num(3), Num(7)>>)

\* C7: for a tag whose content is empty or only white space, every parseUIDs
\* returns the empty list.
BlankContentEmpty == (out.done /\ Tagged /\ Blank) => AllReturn(<<>>)

\* C7, the case: "<UIDs>   </UIDs>" has been parsed to the empty list.
BlankContentEmptyWitness ==
    /\ out.done
    /\ text = [pre |-> <<>>, body |-> "tag", post |-> <<>>,
               toks |-> <<RawToken(<<" ", " ", " ">>, NaN)>>]
    /\ AllReturn(<<>>)

KeepsEveryInteger(r) ==
    /\ Len(r) = Cardinality({k \in 1..Len(text.toks) : text.toks[k].int})
    /\ \A k \in 1..Len(r) : r[k] = IntsOf(text.toks)[k]

\* C9 as stated: no deduplication and no range validation; repeated, zero,
\* negative and arbitrarily large integers are returned unchanged, and the
\* result is as long as there are integer tokens in the tag.
NoDedupNoRange ==
    (out.done /\ Tagged /\ CleanBefore /\ OneLine /\ NoDigitLedWord) =>
        /\ KeepsEveryInteger(out.index)
        /\ KeepsEveryInteger(out.pipeline)
        /\ KeepsEveryInteger(out.part)

\* C9 amended: the same for integers of magnitude at most 2^53 (a larger one
\* is returned as the nearest IEEE double).
NoDedupNoRangeExact ==
    (out.done /\ Tagged /\ CleanBefore /\ OneLine /\ NoDigitLedWord /\ Exact) =>
        /\ KeepsEveryInteger(out.index)
        /\ KeepsEveryInteger(out.pipeline)
        /\ KeepsEveryInteger(out.part)

\* C9, the case: "<UIDs>0,-5 ,0</UIDs>" has been parsed to [0,-5,0].
NoDedupNoRangeExactWitness ==
    /\ out.done
    /\ text = [pre |-> <<>>, body |-> "tag", post |-> <<>>,
               toks |-> <<IntToken(Num(0), <<>>, <<>>),
                          IntToken(MkNum(TRUE, <<5>>), <<>>, <<" ">>),
                          IntToken(Num(0), <<>>, <<>>)>>]
    /\ AllReturn(<<Num(0), MkNum(TRUE, <<5>>), Num(0)>>)

\* ------------------------------------------------------------------------
\*  The settings record: loading, initialization and the UI callbacks
\*  (specification SettingsSpec)
\* ------------------------------------------------------------------------
\* JavaScript values of the settings
JsBoolean(b) == [bool |-> b]
JsNumber(n) == [num |-> n]
JsString(s) == [str |-> s]

\* ToBoolean of a settings value
Truthy(v) == v \notin {JsBoolean(FALSE), JsNumber(0), JsString("")}

\* the keys of defaultSettings that the initialization reads or writes
defaultSettings ==
    [enabled |-> JsBoolean(FALSE), stage1Api |-> JsString("google"),
     stage2Api |-> JsString(""), stage2Model |-> JsString(""),
     lorebookFile |-> JsString(""), contextDepth |-> JsNumber(5)]

\* { ...a, ...b }
Spread(a, b) ==
    [k \in DOMAIN a \cup DOMAIN b |-> IF k \in DOMAIN b THEN b[k] ELSE a[k]]

\* getSettings of index.js applied to the stored record
getSettings(r) ==
    LET r0 == IF ~r.some THEN defaultSettings ELSE r.rec
    IN  Record([k \in DOMAIN r0 \cup DOMAIN defaultSettings |->
                   IF k \in DOMAIN r0 THEN r0[k] ELSE defaultSettings[k]])

\* fault injection for MergeKeepsPersisted: a merge that takes the default
\* for every falsy persisted value
loadSettingsOr(r) ==
    Record([k \in DOMAIN r.rec \cup DOMAIN defaultSettings |->
               IF k \in DOMAIN r.rec /\ (Truthy(r.rec[k]) \/ k \notin DOMAIN defaultSettings)
               THEN r.rec[k] ELSE defaultSettings[k]])

\* the merge of the persisted record with the defaults
loadSettings(r) ==
    IF variant = "index" THEN getSettings(r)
    ELSE Record(Spread(defaultSettings, r.rec))

\* fault injection for InitializationValidates: a validation without the
\* upper limit of the context depth
validateSettingsNoUpper(r) ==
    (IF r.contextDepth.num < 1
     THEN {"Context depth must be between 1 and 50"} ELSE {})
    \cup (IF Truthy(r.enabled) /\ ~Truthy(r.stage1Api)
          THEN {"Stage 1 API must be selected when enabled"} ELSE {})
    \cup (IF Truthy(r.enabled) /\ ~Truthy(r.lorebookFile)
          THEN {"Lorebook file must be selected when enabled"} ELSE {})

\* validateSettings of part_000: the error messages
validateSettings(r) ==
    (IF r.contextDepth.num < 1 \/ r.contextDepth.num > 50
     THEN {"Context depth must be between 1 and 50"} ELSE {})
    \cup (IF Truthy(r.enabled) /\ ~Truthy(r.stage1Api)
          THEN {"Stage 1 API must be selected when enabled"} ELSE {})
    \cup (IF Truthy(r.enabled) /\ ~Truthy(r.lorebookFile)
          THEN {"Lorebook file must be selected when enabled"} ELSE {})

\* stage2Api and stage2Model set from the host's current selection
WithContextModel(r) ==
    [r EXCEPT !.stage2Api = JsString(UserSel.api),
              !.stage2Model = JsString(UserSel.model)]

\* the variables the settings actions leave alone
SettingsFrame ==
    UNCHANGED <<variant, settings, lalib, idleTime, pipelineState,
                userOriginalSettings, hostSel, inv, cacheStale, text, out,
                logAndQueue>>

\* initializeExtension up to its first await: the merge, the validation
\* (part_000) and the stage-2 default, saved only in the branch that sets it
initializeExtension ==
    /\ extension_settings.phase = "persisted"
    /\ LET m    == loadSettings(extension_settings.mem)
           r    == m.rec
           r1   == IF variant = "part" /\ validateSettings(r) # {}
                   THEN [r EXCEPT !.enabled = JsBoolean(FALSE)] ELSE r
           fill == IF variant = "index"
                   THEN ~Truthy(r1.stage2Api) \/ ~Truthy(r1.stage2Model)
                   ELSE ~Truthy(r1.stage2Model)
           r2   == IF fill THEN WithContextModel(r1) ELSE r1
       IN  extension_settings' =
               [extension_settings EXCEPT !.phase = "ready",
                                          !.merged = m,
                                          !.mem = Record(r2),
                                          !.saved = IF fill THEN Record(r2) ELSE @]
    /\ SettingsFrame

\* a UI callback has assigned the record r and called saveSettings
Saved(r) ==
    extension_settings' = [extension_settings EXCEPT !.mem = Record(r),
                                                     !.saved = Record(r)]

\* the onchange callback of the ps_enabled checkbox
ps_enabled_onchange(checked) ==
    /\ extension_settings.phase = "ready"
    /\ Saved([extension_settings.mem.rec EXCEPT !.enabled = JsBoolean(checked)])
    /\ SettingsFrame

\* the onchange callback of the ps_lorebookFile select
ps_lorebookFile_onchange(value) ==
    /\ extension_settings.phase = "ready"
    /\ Saved([extension_settings.mem.rec EXCEPT !.lorebookFile = JsString(value)])
    /\ SettingsFrame

\* showModelSelectorPopup("stage2"), confirmed with the selection api / model
showModelSelectorPopup(api, model) ==
    /\ extension_settings.phase = "ready"
    /\ IF variant = "index" /\ model = ""
       THEN UNCHANGED extension_settings
       ELSE Saved([extension_settings.mem.rec EXCEPT !.stage2Api = JsString(api),
                                                     !.stage2Model = JsString(model)])
    /\ SettingsFrame

\* a key that the persisted record does not have
Absent == [absent |-> TRUE]

\* the record f without its absent keys
Present(f) == [k \in {j \in DOMAIN f : f[j] # Absent} |-> f[k]]

\* the persisted records the extension is loaded with; autoMode is a key of
\* an earlier version that defaultSettings no longer has
Persisted ==
    {NoRecord} \cup
    {Record(Present(f)) : f \in
        [enabled      : {Absent, JsBoolean(FALSE), JsBoolean(TRUE)},
         stage1Api    : {Absent, JsString("")},
         stage2Api    : {Absent, JsString("claude")},
         stage2Model  : {Absent, JsString(""), JsString("sonnet")},
         lorebookFile : {Absent, JsString("book")},
         contextDepth : {Absent, JsNumber(0), JsNumber(7), JsNumber(51)},
         autoMode     : {Absent, JsBoolean(TRUE)}]}

SettingsInit ==
    /\ variant \in {"index", "part"}
    /\ extension_settings \in {Unloaded(p) : p \in Persisted}
    /\ settings = FullConfig
    /\ lalib = TRUE
    /\ idleTime = 0
    /\ pipelineState = [isRunning |-> FALSE, cachedAnalysis |-> NoList,
                        isRestoring |-> FALSE, dependenciesMet |-> TRUE]
    /\ userOriginalSettings = NoSel
    /\ hostSel = UserSel
    /\ inv = [p \in Procs |-> IdleInv]
    /\ cacheStale = FALSE
    /\ text = NoInput
    /\ out = NoOut
    /\ LogAndQueueInit

SettingsNext ==
    \/ initializeExtension
    \/ \E checked \in BOOLEAN : ps_enabled_onchange(checked)
    \/ \E value \in {"", "book"} : ps_lorebookFile_onchange(value)
    \/ \E model \in {"", "sonnet"} : showModelSelectorPopup("claude", model)

SettingsSpec == SettingsInit /\ [][SettingsNext]_vars

\* ------------------------------------------------------------------------
\*  Properties of the settings record (specification SettingsSpec)
\* ------------------------------------------------------------------------
\* C19: loading merges the persisted record with the defaults: afterwards
\* every default key is present, every persisted key has its persisted value
\* (false, 0 and '' included), only the missing keys have the default, and
\* loading the merged record again gives the same record
MergeKeepsPersisted == extension_settings.phase # "persisted" =>
    LET i == extension_settings.input.rec
        m == extension_settings.merged
    IN  /\ m.some
        /\ DOMAIN m.rec = DOMAIN defaultSettings \cup DOMAIN i
        /\ \A k \in DOMAIN i : m.rec[k] = i[k]
        /\ \A k \in DOMAIN defaultSettings \ DOMAIN i : m.rec[k] = defaultSettings[k]
        /\ loadSettings(m) = m

MergeKeepsPersistedWitness ==
    /\ extension_settings.phase = "ready"
    /\ extension_settings.input.some
    /\ DOMAIN extension_settings.input.rec =
          {"enabled", "stage2Model", "contextDepth", "autoMode"}
    /\ extension_settings.merged.rec.enabled = JsBoolean(FALSE)
    /\ extension_settings.merged.rec.stage2Model = JsString("")
    /\ extension_settings.merged.rec.contextDepth = JsNumber(0)
    /\ extension_settings.merged.rec.stage1Api = JsString("google")

\* C20: the settings are persisted on every change: after the initialization
\* and after every UI callback the saved record is the record in memory
SavedAfterEveryChange ==
    extension_settings.phase = "ready" =>
        extension_settings.saved = extension_settings.mem

\* the merged record r is not valid
InvalidSettings(r) ==
    \/ r.contextDepth.num \notin 1..50
    \/ /\ r.enabled = JsBoolean(TRUE)
       /\ r.stage1Api = JsString("") \/ r.lorebookFile = JsString("")

\* C36: the initialization of part_000 leaves the pipeline enabled only if
\* the merged settings are valid: with contextDepth outside 1..50, or with
\* enabled true and no stage-1 provider or no lorebook file, it sets enabled
\* to false; otherwise enabled keeps its merged value.
InitializationValidates ==
    [][(/\ variant = "part"
        /\ extension_settings.phase = "persisted"
        /\ extension_settings'.phase = "ready") =>
           extension_settings'.mem.rec.enabled =
               IF InvalidSettings(extension_settings'.merged.rec)
               THEN JsBoolean(FALSE)
               ELSE extension_settings'.merged.rec.enabled]_vars

\* C36 witness: part_000 has been initialized with enabled true and a context
\* depth of 51, and enabled is now false
InitializationValidatesWitness ==
    /\ variant = "part"
    /\ extension_settings.phase = "ready"
    /\ extension_settings.merged.rec.enabled = JsBoolean(TRUE)
    /\ extension_settings.merged.rec.contextDepth = JsNumber(51)
    /\ extension_settings.merged.rec.stage1Api = JsString("google")
    /\ extension_settings.merged.rec.lorebookFile = JsString("book")
    /\ extension_settings.mem.rec.enabled = JsBoolean(FALSE)

\* ------------------------------------------------------------------------
\*  The debug log: log and the log part of cleanupResources, in index.js
\*  ("index"), in part_000 lines 1-337 ("first") and in part_000 lines
\*  339-1055 ("part")  (specification LogSpec)
\* ------------------------------------------------------------------------
\* most log calls that are followed
MaxEntries == 102

\* the length above which log drops the oldest entry
LogLimit == IF variant = "part" THEN 50 ELSE 100

\* the length to which cleanupResources cuts the log
LogKeep == IF variant = "part" THEN 25 ELSE 50

\* the serial number of the next entry
NextEntry(l) == IF l = <<>> THEN 1 ELSE l[Len(l)] + 1

\* fault injection for BoundedFifoLog: the oldest entry goes as soon as the
\* length reaches the limit
logOffByOne(l, e) ==
    LET pushed == Append(l, e)
    IN  IF Len(pushed) >= LogLimit THEN Tail(pushed) ELSE pushed

\* log: push, then shift when the length is over the limit
log(l, e) ==
    LET pushed == Append(l, e)
    IN  IF Len(pushed) > LogLimit THEN Tail(pushed) ELSE pushed

\* Array.prototype.slice(-n)
SliceLast(l, n) == IF Len(l) <= n THEN l ELSE SubSeq(l, Len(l) - n + 1, Len(l))

LogFrame ==
    UNCHANGED <<variant, settings, lalib, idleTime, pipelineState,
                userOriginalSettings, hostSel, inv, cacheStale, text, out,
                extension_settings, isAppReady, readyQueue, queuedTasks, ranTasks>>

\* any call of log
logCall ==
    /\ NextEntry(debugLog) <= MaxEntries
    /\ debugLog' = log(debugLog, NextEntry(debugLog))
    /\ LogFrame

\* a housekeeping pass: the log part of cleanupResources; expired: the
\* inactivity test holds, and the pass logs that it cleared the cache
\* (index.js registers no housekeeping)
cleanupResourcesLog(expired) ==
    /\ variant # "index"
    /\ LET cut == IF Len(debugLog) > LogKeep THEN SliceLast(debugLog, LogKeep)
                  ELSE debugLog
       IN  IF expired
           THEN /\ NextEntry(cut) <= MaxEntries
                /\ debugLog' = log(cut, NextEntry(cut))
           ELSE debugLog' = cut
    /\ LogFrame

LogInit ==
    /\ variant \in {"index", "first", "part"}
    /\ settings = FullConfig
    /\ lalib = TRUE
    /\ idleTime = 0
    /\ pipelineState = [isRunning |-> FALSE, cachedAnalysis |-> NoList,
                        isRestoring |-> FALSE, dependenciesMet |-> TRUE]
    /\ userOriginalSettings = NoSel
    /\ hostSel = UserSel
    /\ inv = [p \in Procs |-> IdleInv]
    /\ cacheStale = FALSE
    /\ text = NoInput
    /\ out = NoOut
    /\ extension_settings = Unloaded(NoRecord)
    /\ LogAndQueueInit

LogNext ==
    \/ logCall
    \/ \E expired \in BOOLEAN : cleanupResourcesLog(expired)

LogSpec == LogInit /\ [][LogNext]_vars

\* the entries of l are in insertion order, none missing in between
InOrder(l) == \A i \in 1..(Len(l) - 1) : l[i + 1] = l[i] + 1

\* C29: the debug log is a bounded FIFO: after any sequence of log calls and
\* housekeeping passes its length is at most the variant's capacity and its
\* entries are in insertion order, and a log call into a full log evicts
\* exactly the oldest entry, one into a log that is not full evicts none
BoundedFifoLog ==
    [][/\ Len(debugLog') <= LogLimit
       /\ InOrder(debugLog')
       /\ logCall =>
              debugLog' = IF Len(debugLog) < LogLimit
                          THEN Append(debugLog, NextEntry(debugLog))
                          ELSE Append(Tail(debugLog), NextEntry(debugLog))]_vars

BoundedFifoLogWitness ==
    /\ Len(debugLog) = LogLimit
    /\ debugLog[1] = 2
    /\ InOrder(debugLog)

\* ------------------------------------------------------------------------
\*  The deferred-task queue of part_000 lines 1-337 ("first"): queueReadyTask
\*  and runReadyQueue, with tasks that return or throw
\*  (specification ReadySpec)
\* ------------------------------------------------------------------------
\* most tasks passed to queueReadyTask
MaxTasks == 5

\* the k-th task passed to queueReadyTask; throws: calling it throws
Task(k, throws) == [id |-> k, throws |-> throws]

\* the loop of a runReadyQueue without try/catch: the first task that throws
\* ends it (q: the queue, ran: the tasks called so far)
RECURSIVE DrainNoCatch(_, _)
DrainNoCatch(q, ran) ==
    IF q = <<>> THEN [q |-> q, ran |-> ran]
    ELSE IF Head(q).throws THEN [q |-> Tail(q), ran |-> Append(ran, Head(q))]
    ELSE DrainNoCatch(Tail(q), Append(ran, Head(q)))

\* the while loop of runReadyQueue: shift a task, call it, catch what it
\* throws
RECURSIVE Drain(_, _)
Drain(q, ran) ==
    IF q = <<>> THEN [q |-> q, ran |-> ran]
    ELSE Drain(Tail(q), Append(ran, Head(q)))

ReadyFrame ==
    UNCHANGED <<variant, settings, lalib, idleTime, pipelineState,
                userOriginalSettings, hostSel, inv, cacheStale, text, out,
                extension_settings, debugLog>>

\* fault injection for ReadyQueueOneShot: runReadyQueue without the
\* try/catch around the task
runReadyQueueNoCatch ==
    /\ isAppReady' = TRUE
    /\ LET d == DrainNoCatch(readyQueue, ranTasks)
       IN  readyQueue' = d.q /\ ranTasks' = d.ran
    /\ UNCHANGED queuedTasks
    /\ ReadyFrame

\* the APP_READY handler
runReadyQueue ==
    /\ isAppReady' = TRUE
    /\ LET d == Drain(readyQueue, ranTasks)
       IN  readyQueue' = d.q /\ ranTasks' = d.ran
    /\ UNCHANGED queuedTasks
    /\ ReadyFrame

\* queueReadyTask, called with a new task (initializeExtension calls it after
\* its awaited fetch, before or after APP_READY)
queueReadyTask(throws) ==
    /\ Len(queuedTasks) < MaxTasks
    /\ LET task == Task(Len(queuedTasks) + 1, throws)
       IN  /\ queuedTasks' = Append(queuedTasks, task)
           /\ IF isAppReady
              THEN ranTasks' = Append(ranTasks, task) /\ UNCHANGED readyQueue
              ELSE readyQueue' = Append(readyQueue, task) /\ UNCHANGED ranTasks
    /\ UNCHANGED isAppReady
    /\ ReadyFrame

ReadyInit ==
    /\ variant = "first"
    /\ settings = FullConfig
    /\ lalib = TRUE
    /\ idleTime = 0
    /\ pipelineState = [isRunning |-> FALSE, cachedAnalysis |-> NoList,
                        isRestoring |-> FALSE, dependenciesMet |-> TRUE]
    /\ userOriginalSettings = NoSel
    /\ hostSel = UserSel
    /\ inv = [p \in Procs |-> IdleInv]
    /\ cacheStale = FALSE
    /\ text = NoInput
    /\ out = NoOut
    /\ extension_settings = Unloaded(NoRecord)
    /\ LogAndQueueInit

ReadyNext ==
    \/ runReadyQueue
    \/ \E throws \in BOOLEAN : queueReadyTask(throws)

ReadySpec == ReadyInit /\ [][ReadyNext]_vars

\* C30: the deferred-task queue is a one-shot readiness signal: every task
\* passed to queueReadyTask is called once, in the order of the calls of
\* queueReadyTask, or is still waiting in that order; none is called before
\* the application-ready event; and once the event has been processed the
\* queue is empty, whether or not a task has thrown
ReadyQueueOneShot ==
    /\ ranTasks \o readyQueue = queuedTasks
    /\ ~isAppReady => ranTasks = <<>>
    /\ isAppReady => readyQueue = <<>>

ReadyQueueOneShotWitness ==
    /\ isAppReady
    /\ Len(ranTasks) = 4
    /\ ranTasks[1].throws /\ ~ranTasks[2].throws
    /\ ranTasks[3].throws /\ ~ranTasks[4].throws

\* ------------------------------------------------------------------------
\*  Replies with several tags (specification ParseSpec)
\* ------------------------------------------------------------------------
\* the text up to the end of its first closing tag (the whole text when it
\* has none)
TruncateAfterClose(t) ==
    LET closes == {q \in 1..Len(t) : StartsAt(t, q, CLOSE)}
    IN  IF closes = {} THEN t
        ELSE SubSeq(t, 1, (CHOOSE x \in closes : \A y \in closes : x <= y)
                              + Len(CLOSE) - 1)

\* the number of disjoint opening/closing pairs of t, read from the left
RECURSIVE PairCount(_)
PairCount(t) ==
    LET m == MatchPairs(t, TRUE)
    IN  IF m = {} THEN 0
        ELSE LET q == CHOOSE x \in {pq[2] : pq \in m} :
                          \A y \in {pq[2] : pq \in m} : x <= y
             IN  1 + PairCount(SubSeq(t, q + Len(CLOSE), Len(t)))

\* the reply holds more than one pair of tags
SeveralPairs == PairCount(TextOf(text)) > 1

\* C33: for a reply with several <UIDs>...</UIDs> pairs, each parseUIDs
\* returns what it returns for the reply cut after its first closing tag:
\* only the first pair is used.
OnlyFirstPairUsed ==
    (out.done /\ SeveralPairs) =>
        /\ out.index = parseUIDs_index(TruncateAfterClose(TextOf(text)))
        /\ out.pipeline = parseUIDs_pipeline(TruncateAfterClose(TextOf(text)))
        /\ out.part = parseUIDs_part(TruncateAfterClose(TextOf(text)))

\* C34: the three implementations of parseUIDs return the same list for
\* every text, also when the content of the tag spans several lines.
ImplementationsAgree ==
    out.done => out.index = out.pipeline /\ out.pipeline = out.part

====
